---- MODULE Spec2Model ----
(***************************************************************************)
(* Model of the bilingual search and split-pane viewer of the              *)
(* multi-language document processor.                                      *)
(*                                                                         *)
(*   BilingualSearch.tsx : performSearch, findMatchingChunks, clearSearch  *)
(*   SplitPaneViewer.tsx : highlightText, the synchronized-scroll effect   *)
(*                                                                         *)
(* A JavaScript string is a sequence of one-character strings.  Offsets    *)
(* into strings are 0-based as in the source; Sequences are 1-based, so    *)
(* the character at JavaScript offset i is s[i + 1].                       *)
(***************************************************************************)
EXTENDS Integers, Sequences, FiniteSets, TLC

VARIABLES
    \* BilingualSearch component (and the page state it reads and writes)
    documents,        \* Home: documents, the prop handed to BilingualSearch
    query,            \* useState('') : the text of the search input
    searchLanguage,   \* useState('all') : 'all' | 'original' | 'translated'
    isSearching,      \* useState(false)
    results,          \* useState([]) : SearchResult[]
    inflight,         \* performSearch calls suspended in their 300 ms delay
    pageSearchQuery,  \* Home: searchQuery, set through onSearchResults
    searched,         \* observation: the inputs of the last completed search
    userAction,       \* observation: the user's last action on the search form
    \* Home page
    viewMode,         \* useState('upload') : 'upload' | 'viewer' | 'search'
    selectedDocument, \* useState(null) : the document shown by the viewer
    \* SplitPaneViewer: highlightText
    hText,            \* highlightText: text (originalText or translatedText)
    hQuery,           \* highlightText: query (the searchQuery prop)
    hChunks,          \* highlightText: chunks (one side of highlightedChunks)
    hHighlights,      \* highlightText: highlights, after the sort
    hParts,           \* highlightText: the nodes returned
    hRendered,        \* highlightText has returned
    \* SplitPaneViewer: synchronized scrolling
    syncScroll,       \* useState(true) : the "Sync scroll" checkbox
    pane,             \* the two scroll containers: scrollTop, scrollHeight, clientHeight
    scrollingPane,    \* the effect's scrollingPane: 'original' | 'translated' | null
    timerPending,     \* the effect's scrollTimeout is set and has not fired
    pendingScroll,    \* per pane: the scroll event queued for it, and what caused it
    lastEvent,        \* observation: the step taken last
    relayouts,        \* the number of size changes so far (bounded in the model)
    \* SplitPaneViewer: the timeouts of the effect, in time
    timers,           \* the time left of every timeout that is pending, in ms
    idle,             \* observation: ms since a handler last marked its pane
    \* Home: the pinned chunks and the loads from a vault
    highlightedChunks,   \* the chunks handed to the viewer, or Undefined
    chunksFrom,          \* observation: the id of the document whose search
                         \* result the chunks were taken from (0: none)
    selectedVaultId,     \* the vault selected, or "null"
    isLoadingFromVault,  \* the overlay "Loading Document" is shown
    vaultLoad,           \* the load suspended at a fetch, or NoLoad
    \* DocumentUpload
    status,           \* ProcessingStatus
    progress,         \* 0..100
    isProcessing,     \* Home's flag, set through setIsProcessing
    error,            \* the message shown, or "null"
    run,              \* the processFile call: where it is suspended or how it
                      \* ended, with the type of its file
    runs,             \* the number of processFile calls so far
    intervals,        \* the progress intervals that have not been cleared
    resetPending,     \* the timeout of 2000 ms that resets the component
    delivered,        \* observation: onDocumentProcessed calls of the run
    upEvent,          \* observation: the last step and what it found
    \* The status-polling loops of the server
    pollFn,           \* the function whose loop runs
    attempts,         \* its counter (attempts, or i)
    pollState,        \* "polling", "text" (completed, the text is being
                      \* downloaded), "returned" or "thrown"
    polls,            \* observation: the status requests made
    lastPoll,         \* observation: what the last one reported, or why the
                      \* loop was left
    \* The vault object of an uploaded PDF and the two routes that use it
    vaultText,        \* the text the vault extracted from the object
    vaultMeta,        \* the mlp_* fields of the object's metadata, or NoMeta
    postResponse,     \* the answer of POST /api/process, or NoResponse
    getResponse,      \* the answer of the GET of the document, or NoResponse
    getCalls,         \* observation: the calls the GET made behind the
                      \* metadata request
    \* The vaults of the account and the routes that create and list them
    vaults,           \* the vaults the server holds
    envVaultId,       \* process.env.CASE_VAULT_ID, or 0 when it is not set
    usedVaults,       \* the ids getOrCreateVault has returned for uploads
    listed            \* the answer of GET /api/vaults, or NoList

searchVars == <<documents, query, searchLanguage, isSearching, results,
                inflight, pageSearchQuery, searched, userAction>>
pageVars == <<viewMode, selectedDocument>>
highlightVars == <<hText, hQuery, hChunks, hHighlights, hParts, hRendered>>
scrollVars == <<syncScroll, pane, scrollingPane, timerPending, pendingScroll,
                lastEvent, relayouts>>
clockVars == <<timers, idle>>
vaultVars == <<highlightedChunks, chunksFrom, selectedVaultId, isLoadingFromVault,
               vaultLoad>>
uploadVars == <<status, progress, isProcessing, error, run, runs, intervals,
                resetPending, delivered, upEvent>>
pollVars == <<pollFn, attempts, pollState, polls, lastPoll>>
cacheVars == <<vaultText, vaultMeta, postResponse, getResponse, getCalls>>
nameVars == <<vaults, envVaultId, usedVaults, listed>>
extraVars == <<clockVars, vaultVars, uploadVars, pollVars, cacheVars, nameVars>>
unclockedVars == <<searchVars, highlightVars, pageVars, vaultVars, uploadVars,
                   pollVars, cacheVars, nameVars>>
unvaultedVars == <<highlightVars, clockVars, uploadVars, pollVars, cacheVars,
                   nameVars>>
vars == <<searchVars, highlightVars, scrollVars, pageVars, extraVars>>

----------------------------------------------------------------------------
(* Bounds of the model *)

MaxTextLen == 5      \* longest document side drawn for the match engine
MaxQueryLen == 2     \* longest query drawn for the match engine
MaxRelayouts == 1    \* size changes of the panes of one viewer

NL == "\n"
Alphabet == {"a", "A", " ", NL}

\* All strings over alphabet A of length at most n
Strs(A, n) == UNION {[1..k -> A] : k \in 0..n}

----------------------------------------------------------------------------
(* JavaScript string primitives *)

Min(a, b) == IF a < b THEN a ELSE b
Max(a, b) == IF a > b THEN a ELSE b

\* String.prototype.toLowerCase, on the characters of the model
LowerChar(c) ==
    CASE c = "A" -> "a"
      [] c = "B" -> "b"
      [] c = "C" -> "c"
      [] OTHER -> c

ToLower(s) == [i \in 1..Len(s) |-> LowerChar(s[i])]

\* White space as String.prototype.trim sees it
IsSpace(c) == c \in {" ", NL}

RECURSIVE TrimStart(_)
TrimStart(s) ==
    IF s # <<>> /\ IsSpace(Head(s)) THEN TrimStart(Tail(s)) ELSE s

RECURSIVE TrimEnd(_)
TrimEnd(s) ==
    IF s # <<>> /\ IsSpace(s[Len(s)])
    THEN TrimEnd(SubSeq(s, 1, Len(s) - 1))
    ELSE s

Trim(s) == TrimEnd(TrimStart(s))

\* q occurs in s at 0-based offset i
MatchAt(s, q, i) ==
    /\ i >= 0
    /\ i + Len(q) <= Len(s)
    /\ \A k \in 1..Len(q) : s[i + k] = q[k]

\* String.prototype.includes
Includes(s, q) == \E i \in 0..Len(s) : MatchAt(s, q, i)

LastIndexOf(s, q) ==
    IF \E i \in 0..Len(s) : MatchAt(s, q, i)
    THEN CHOOSE i \in 0..Len(s) :
            MatchAt(s, q, i) /\ \A j \in (i + 1)..Len(s) : ~MatchAt(s, q, j)
    ELSE -1

\* String.prototype.indexOf: the first offset, or -1
IndexOf(s, q) ==
    IF Includes(s, q)
    THEN CHOOSE i \in 0..Len(s) :
            MatchAt(s, q, i) /\ \A j \in 0..(i - 1) : ~MatchAt(s, q, j)
    ELSE -1

\* String.prototype.slice(a, b) for 0 <= a, b
Slice(s, a, b) == SubSeq(s, a + 1, Min(b, Len(s)))

\* String.prototype.split('\n'): the lines, empty ones kept
RECURSIVE SplitFrom(_, _, _)
SplitFrom(s, i, cur) ==
    IF i > Len(s) THEN <<cur>>
    ELSE IF s[i] = NL THEN <<cur>> \o SplitFrom(s, i + 1, <<>>)
    ELSE SplitFrom(s, i + 1, Append(cur, s[i]))

Split(s) == SplitFrom(s, 1, <<>>)

RECURSIVE JoinWithSpaces(_)
JoinWithSpaces(ls) ==
    IF ls = <<>> THEN <<>>
    ELSE IF Len(ls) = 1 THEN ls[1]
    ELSE ls[1] \o <<" ">> \o JoinWithSpaces(Tail(ls))

\* Array.prototype.join('\n')
RECURSIVE Join(_)
Join(ls) ==
    IF ls = <<>> THEN <<>>
    ELSE IF Len(ls) = 1 THEN ls[1]
    ELSE ls[1] \o <<NL>> \o Join(Tail(ls))

\* The offsets at which a global regular expression of the escaped (literal)
\* pattern q matches s, scanning from offset i: after a match the scan resumes
\* behind it, and behind an empty match one character further on.
RECURSIVE RegexMatches(_, _, _)
RegexMatches(s, q, i) ==
    IF i > Len(s) THEN <<>>
    ELSE IF MatchAt(s, q, i)
         THEN <<i>> \o RegexMatches(s, q, IF q = <<>> THEN i + 1 ELSE i + Len(q))
         ELSE RegexMatches(s, q, i + 1)

----------------------------------------------------------------------------
(* BilingualSearch.tsx: the match engine *)

\* A score is occurrences / line.length, kept as the two operands of the
\* division: the quotient of two small integers is compared exactly by
\* cross-multiplication, and n / 0 (n > 0) is Infinity, above every quotient.
Score(occurrences, length) == [num |-> occurrences, den |-> length]

ScoreGreater(x, y) == x.num * y.den > y.num * x.den

ScoreEqual(x, y) == x.num * y.den = y.num * x.den

\* line.toLowerCase().includes(queryLower)
HitLineCaseSensitive(line, queryLower) == Includes(line, queryLower)

HitLine(line, queryLower) == Includes(ToLower(line), queryLower)

ContextWithoutNextLine(lines, i) ==
    Join(SubSeq(lines, Max(0, i - 1) + 1, Min(Len(lines), i + 1)))

\* lines.slice(Math.max(0, i - 1), Math.min(lines.length, i + 2)).join('\n')
\* for the 0-based line index i
Context(lines, i) ==
    LET start == Max(0, i - 1)
        end == Min(Len(lines), i + 2)
    IN Join(SubSeq(lines, start + 1, end))

OccurrencesOverlapping(line, queryLower) ==
    Cardinality({i \in 0..Len(line) : MatchAt(ToLower(line), queryLower, i)})

\* (line.toLowerCase().match(new RegExp(escapeRegex(queryLower), 'g')) || []).length
Occurrences(line, queryLower) == Len(RegexMatches(ToLower(line), queryLower, 0))

\* The loop over the lines: one chunk per hit line, in line order
RECURSIVE ChunksFrom(_, _, _)
ChunksFrom(lines, queryLower, i) ==
    IF i >= Len(lines) THEN <<>>
    ELSE LET line == lines[i + 1]
             rest == ChunksFrom(lines, queryLower, i + 1)
         IN IF HitLine(line, queryLower)
            THEN <<[text |-> Context(lines, i),
                    score |-> Score(Occurrences(line, queryLower), Len(line))]>>
                 \o rest
            ELSE rest

\* self.findIndex(c => c.text === chunk.text)
FindIndexByText(chunks, t) ==
    CHOOSE j \in 1..Len(chunks) :
        chunks[j].text = t /\ \A k \in 1..(j - 1) : chunks[k].text # t

FindLastIndexByText(chunks, t) ==
    CHOOSE j \in 1..Len(chunks) :
        chunks[j].text = t /\ \A k \in (j + 1)..Len(chunks) : chunks[k].text # t

RECURSIVE FilterIndex(_, _, _)
FilterIndex(chunks, keep, i) ==
    IF i > Len(chunks) THEN <<>>
    ELSE (IF i \in keep THEN <<chunks[i]>> ELSE <<>>)
         \o FilterIndex(chunks, keep, i + 1)

UniqueChunksKeepLast(chunks) ==
    FilterIndex(chunks,
                {i \in 1..Len(chunks) : i = FindLastIndexByText(chunks, chunks[i].text)},
                1)

\* chunks.filter((chunk, index, self) =>
\*     index === self.findIndex(c => c.text === chunk.text))
UniqueChunks(chunks) ==
    FilterIndex(chunks,
                {i \in 1..Len(chunks) : i = FindIndexByText(chunks, chunks[i].text)},
                1)

\* Array.prototype.sort is stable: x goes before the first element that the
\* comparator puts strictly behind it.
RECURSIVE InsertByScore(_, _)
InsertByScore(sorted, x) ==
    IF sorted = <<>> THEN <<x>>
    ELSE IF ScoreGreater(x.score, Head(sorted).score)
         THEN <<x>> \o sorted
         ELSE <<Head(sorted)>> \o InsertByScore(Tail(sorted), x)

RECURSIVE InsertByScoreAscending(_, _)
InsertByScoreAscending(sorted, x) ==
    IF sorted = <<>> THEN <<x>>
    ELSE IF ScoreGreater(Head(sorted).score, x.score)
         THEN <<x>> \o sorted
         ELSE <<Head(sorted)>> \o InsertByScoreAscending(Tail(sorted), x)

RECURSIVE SortAscendingFrom(_, _, _)
SortAscendingFrom(chunks, i, acc) ==
    IF i > Len(chunks) THEN acc
    ELSE SortAscendingFrom(chunks, i + 1, InsertByScoreAscending(acc, chunks[i]))

SortByScoreAscending(chunks) == SortAscendingFrom(chunks, 1, <<>>)

RECURSIVE SortFrom(_, _, _)
SortFrom(chunks, i, acc) ==
    IF i > Len(chunks) THEN acc
    ELSE SortFrom(chunks, i + 1, InsertByScore(acc, chunks[i]))

\* uniqueChunks.sort((a, b) => b.score - a.score)
SortByScore(chunks) == SortFrom(chunks, 1, <<>>)

findMatchingChunks(text, q) ==
    LET lines == Split(text)
        queryLower == ToLower(q)
        chunks == ChunksFrom(lines, queryLower, 0)
    IN SortByScore(UniqueChunks(chunks))

----------------------------------------------------------------------------
(* BilingualSearch.tsx: performSearch over the documents *)

Scopes == {"all", "original", "translated"}

\* searchLanguage === 'all' || searchLanguage === 'original'
SearchesOriginal(scope) == scope \in {"all", "original"}

SearchesEverySide(scope) == TRUE

\* searchLanguage === 'all' || searchLanguage === 'translated'
SearchesTranslated(scope) == scope \in {"all", "translated"}

KeepsResultBothSides(originalMatches, translatedMatches) ==
    Len(originalMatches) > 0 /\ Len(translatedMatches) > 0

\* originalMatches.length > 0 || translatedMatches.length > 0
KeepsResult(originalMatches, translatedMatches) ==
    Len(originalMatches) > 0 \/ Len(translatedMatches) > 0

\* The body of the loop over the documents: the SearchResult of one document
\* (filename and originalLanguage are copied from the document and not modelled)
SearchDocument(doc, scope, queryLower) ==
    [documentId |-> doc.id,
     originalMatches |->
         IF SearchesOriginal(scope)
         THEN findMatchingChunks(doc.originalText, queryLower) ELSE <<>>,
     translatedMatches |->
         IF SearchesTranslated(scope)
         THEN findMatchingChunks(doc.translatedText, queryLower) ELSE <<>>]

RECURSIVE CollectResults(_, _, _, _)
CollectResults(docs, scope, queryLower, i) ==
    IF i > Len(docs) THEN <<>>
    ELSE LET r == SearchDocument(docs[i], scope, queryLower)
         IN (IF KeepsResult(r.originalMatches, r.translatedMatches)
             THEN <<r>> ELSE <<>>)
            \o CollectResults(docs, scope, queryLower, i + 1)

\* a.originalMatches.length + a.translatedMatches.length
Total(r) == Len(r.originalMatches) + Len(r.translatedMatches)

RECURSIVE InsertByTotal(_, _)
InsertByTotal(sorted, x) ==
    IF sorted = <<>> THEN <<x>>
    ELSE IF Total(x) > Total(Head(sorted))
         THEN <<x>> \o sorted
         ELSE <<Head(sorted)>> \o InsertByTotal(Tail(sorted), x)

RECURSIVE InsertByTotalAscending(_, _)
InsertByTotalAscending(sorted, x) ==
    IF sorted = <<>> THEN <<x>>
    ELSE IF Total(x) < Total(Head(sorted))
         THEN <<x>> \o sorted
         ELSE <<Head(sorted)>> \o InsertByTotalAscending(Tail(sorted), x)

RECURSIVE SortTotalAscendingFrom(_, _, _)
SortTotalAscendingFrom(rs, i, acc) ==
    IF i > Len(rs) THEN acc
    ELSE SortTotalAscendingFrom(rs, i + 1, InsertByTotalAscending(acc, rs[i]))

SortByTotalAscending(rs) == SortTotalAscendingFrom(rs, 1, <<>>)

RECURSIVE SortTotalFrom(_, _, _)
SortTotalFrom(rs, i, acc) ==
    IF i > Len(rs) THEN acc
    ELSE SortTotalFrom(rs, i + 1, InsertByTotal(acc, rs[i]))

\* searchResults.sort((a, b) => bTotal - aTotal)
SortByTotal(rs) == SortTotalFrom(rs, 1, <<>>)

\* performSearch behind its delay: the results of one search
SearchResults(docs, scope, searchQuery) ==
    SortByTotal(CollectResults(docs, scope, ToLower(searchQuery), 1))

NeverBlank(searchQuery) == FALSE

\* !searchQuery.trim()
IsBlank(searchQuery) == Trim(searchQuery) = <<>>

NoSearch == [done |-> FALSE]

\* The user's last action on the search form: none yet, a submission (with
\* the documents and the scope on the page at that moment) or a clear, which
\* leaves the record of the last submission in place
NoAction == [kind |-> "none", query |-> <<>>, docs |-> <<>>, scope |-> "all"]
Submitted(q) == [kind |-> "submit", query |-> q, docs |-> documents,
                 scope |-> searchLanguage]

\* performSearch up to its await: a blank query clears the results at once;
\* any other query suspends the call, holding the documents and the scope of
\* the render that created the callback.
PerformSearchStart(searchQuery) ==
    IF IsBlank(searchQuery)
    THEN /\ results' = <<>>
         /\ pageSearchQuery' = <<>>
         /\ searched' = [done |-> TRUE, query |-> searchQuery,
                         docs |-> documents, scope |-> searchLanguage]
         /\ UNCHANGED <<isSearching, inflight>>
    ELSE /\ isSearching' = TRUE
         /\ inflight' = Append(inflight, [query |-> searchQuery,
                                          docs |-> documents,
                                          scope |-> searchLanguage,
                                          orphan |-> FALSE])
         /\ UNCHANGED <<results, pageSearchQuery, searched>>

PerformSearchResumeLive ==
    /\ inflight # <<>>
    /\ LET call == Head(inflight)
           searchResults == SearchResults(documents, searchLanguage, call.query)
       IN /\ pageSearchQuery' = call.query
          /\ IF call.orphan
             THEN UNCHANGED <<results, searched, isSearching>>
             ELSE /\ results' = searchResults
                  /\ searched' = [done |-> TRUE, query |-> call.query,
                                  docs |-> call.docs, scope |-> call.scope]
                  /\ isSearching' = FALSE
    /\ inflight' = Tail(inflight)
    /\ UNCHANGED <<documents, query, searchLanguage, userAction>>

\* performSearch from the end of its delay to its return.  The delays are all
\* 300 ms, so the suspended calls resume in the order they were started.
\* setResults and setIsSearching of a call whose component has been unmounted
\* (orphan) change nothing; its onSearchResults still reaches the page.
PerformSearchResume ==
    /\ inflight # <<>>
    /\ LET call == Head(inflight)
           searchResults == SearchResults(call.docs, call.scope, call.query)
       IN /\ pageSearchQuery' = call.query
          /\ IF call.orphan
             THEN UNCHANGED <<results, searched, isSearching>>
             ELSE /\ results' = searchResults
                  /\ searched' = [done |-> TRUE, query |-> call.query,
                                  docs |-> call.docs, scope |-> call.scope]
                  /\ isSearching' = FALSE
    /\ inflight' = Tail(inflight)
    /\ UNCHANGED <<documents, query, searchLanguage, userAction>>

\* The input's onChange
SetQuery(q) ==
    /\ query' = q
    /\ UNCHANGED <<documents, searchLanguage, isSearching, results, inflight,
                   pageSearchQuery, searched, userAction>>

\* The language filter's onChange
SetSearchLanguage(scope) ==
    /\ searchLanguage' = scope
    /\ UNCHANGED <<documents, query, isSearching, results, inflight,
                   pageSearchQuery, searched, userAction>>

\* The form's onSubmit; the submit button is disabled while isSearching or
\* while the query is blank.
HandleSearch ==
    /\ ~isSearching
    /\ ~IsBlank(query)
    /\ PerformSearchStart(query)
    /\ userAction' = Submitted(query)
    /\ UNCHANGED <<documents, query, searchLanguage>>

\* clearSearch, the X button shown while the query is not empty
ClearSearch ==
    /\ query # <<>>
    /\ query' = <<>>
    /\ results' = <<>>
    /\ pageSearchQuery' = <<>>
    /\ searched' = NoSearch
    /\ userAction' = [userAction EXCEPT !.kind = "clear"]
    /\ UNCHANGED <<documents, searchLanguage, isSearching, inflight>>

----------------------------------------------------------------------------
(* SplitPaneViewer.tsx: highlightText *)

\* The nodes highlightText returns: a run of plain text, a line break, or a
\* mark around a slice of the text
TextNode(s) == [kind |-> "text", s |-> s]
BrNode == [kind |-> "br"]
MarkNode(s, isChunk) == [kind |-> "mark", s |-> s, isChunk |-> isChunk]

\* part.split('\n').map((line, j) => <>{line}{j < n - 1 && <br />}</>)
RECURSIVE LinesWithBreaks(_, _)
LinesWithBreaks(lines, j) ==
    IF j > Len(lines) THEN <<>>
    ELSE <<TextNode(lines[j])>>
         \o (IF j < Len(lines) THEN <<BrNode>> ELSE <<>>)
         \o LinesWithBreaks(lines, j + 1)

QueryHighlightsFirstOnly(offsets, len) ==
    IF offsets = <<>> THEN <<>>
    ELSE <<[start |-> Head(offsets), end |-> Head(offsets) + len,
            isChunk |-> FALSE]>>

\* The loop of regex.exec(text) for new RegExp(escapeRegex(query), 'gi')
RECURSIVE QueryHighlights(_, _)
QueryHighlights(offsets, len) ==
    IF offsets = <<>> THEN <<>>
    ELSE <<[start |-> Head(offsets), end |-> Head(offsets) + len,
            isChunk |-> FALSE]>>
         \o QueryHighlights(Tail(offsets), len)

\* The loop over the chunks: text.indexOf(chunk), skipped when -1
RECURSIVE ChunkHighlights(_, _)
ChunkHighlights(text, chunks) ==
    IF chunks = <<>> THEN <<>>
    ELSE LET chunk == Head(chunks)
             index == IndexOf(text, chunk)
         IN (IF index # -1
             THEN <<[start |-> index, end |-> index + Len(chunk),
                     isChunk |-> TRUE]>>
             ELSE <<>>)
            \o ChunkHighlights(text, Tail(chunks))

RECURSIVE InsertByStartBeforeEqual(_, _)
InsertByStartBeforeEqual(sorted, x) ==
    IF sorted = <<>> THEN <<x>>
    ELSE IF x.start <= Head(sorted).start
         THEN <<x>> \o sorted
         ELSE <<Head(sorted)>> \o InsertByStartBeforeEqual(Tail(sorted), x)

RECURSIVE InsertByStart(_, _)
InsertByStart(sorted, x) ==
    IF sorted = <<>> THEN <<x>>
    ELSE IF x.start < Head(sorted).start
         THEN <<x>> \o sorted
         ELSE <<Head(sorted)>> \o InsertByStart(Tail(sorted), x)

RECURSIVE SortStartFrom(_, _, _)
SortStartFrom(hs, i, acc) ==
    IF i > Len(hs) THEN acc
    ELSE SortStartFrom(hs, i + 1, InsertByStart(acc, hs[i]))

\* highlights.sort((a, b) => a.start - b.start)
SortByStart(hs) == SortStartFrom(hs, 1, <<>>)

\* The highlights of a text, sorted
Highlights(text, q, chunks) ==
    SortByStart(
        (IF q # <<>>
         THEN QueryHighlights(RegexMatches(ToLower(text), ToLower(q), 0), Len(q))
         ELSE <<>>)
        \o ChunkHighlights(text, chunks))

\* The loop that builds parts: the plain slice before a highlight when the
\* highlight starts behind lastIndex, then the mark; lastIndex = highlight.end
RECURSIVE BuildParts(_, _, _)
BuildParts(text, hs, lastIndex) ==
    IF hs = <<>>
    THEN IF lastIndex < Len(text)
         THEN <<TextNode(Slice(text, lastIndex, Len(text)))>>
         ELSE <<>>
    ELSE LET h == Head(hs)
         IN (IF h.start > lastIndex
             THEN <<TextNode(Slice(text, lastIndex, h.start))>>
             ELSE <<>>)
            \o <<MarkNode(Slice(text, h.start, h.end), h.isChunk)>>
            \o BuildParts(text, Tail(hs), h.end)

\* parts.map: a string part becomes its lines and line breaks, a mark stays
RECURSIVE RenderParts(_)
RenderParts(parts) ==
    IF parts = <<>> THEN <<>>
    ELSE (IF Head(parts).kind = "text"
          THEN LinesWithBreaks(Split(Head(parts).s), 1)
          ELSE <<Head(parts)>>)
         \o RenderParts(Tail(parts))

highlightText(text, q, chunks) ==
    IF q = <<>> /\ chunks = <<>>
    THEN LinesWithBreaks(Split(text), 1)
    ELSE RenderParts(BuildParts(text, Highlights(text, q, chunks), 0))

\* The characters the returned nodes show, in order
RECURSIVE RenderedText(_)
RenderedText(nodes) ==
    IF nodes = <<>> THEN <<>>
    ELSE (IF Head(nodes).kind = "br" THEN <<NL>> ELSE Head(nodes).s)
         \o RenderedText(Tail(nodes))

\* One call of highlightText on the inputs of the render
CallHighlightText ==
    /\ ~hRendered
    /\ hHighlights' = (IF hQuery = <<>> /\ hChunks = <<>> THEN <<>>
                       ELSE Highlights(hText, hQuery, hChunks))
    /\ hParts' = highlightText(hText, hQuery, hChunks)
    /\ hRendered' = TRUE
    /\ UNCHANGED <<hText, hQuery, hChunks>>

----------------------------------------------------------------------------
(* SplitPaneViewer.tsx: the synchronized-scroll effect *)

Panes == {"original", "translated"}

Other(p) == IF p = "original" THEN "translated" ELSE "original"

RECURSIVE GCD(_, _)
GCD(a, b) == IF b = 0 THEN a ELSE GCD(b, a % b)

\* A scroll offset is a quotient of integers, kept in lowest terms: the
\* arithmetic of the handlers is exact in the model.
Rat(n, d) ==
    IF n = 0 THEN [num |-> 0, den |-> 1]
    ELSE [num |-> n \div GCD(n, d), den |-> d \div GCD(n, d)]

RatLeqInt(r, k) == r.num <= k * r.den

\* A scroll container of the given <<scrollHeight, clientHeight>>, at the top
Element(g) == [scrollTop |-> Rat(0, 1), scrollHeight |-> g[1], clientHeight |-> g[2]]

FullHeight(el) == el.scrollHeight

\* el.scrollHeight - el.clientHeight
MaxScroll(el) == el.scrollHeight - el.clientHeight

\* What the element keeps of an assigned scrollTop: the value, held within
\* 0 and the scrollable range
Clamp(r, el) ==
    IF MaxScroll(el) <= 0 THEN Rat(0, 1)
    ELSE IF RatLeqInt(r, MaxScroll(el)) THEN r
    ELSE Rat(MaxScroll(el), 1)

\* scrollRatio * (otherEl.scrollHeight - otherEl.clientHeight), with
\* scrollRatio = el.scrollTop / maxScroll
TargetScroll(el, otherEl) ==
    Rat(el.scrollTop.num * MaxScroll(otherEl), el.scrollTop.den * MaxScroll(el))

NoEvent == [kind |-> "none"]

\* A scroll event is queued for an element whose scrollTop has changed; one
\* event stands for all changes since the last one delivered.  A change made
\* by the user (or by layout) takes the event over from a mirrored write.
Queue(old, cause) ==
    IF old \in {"user", "layout"} THEN old ELSE cause

\* The user scrolls pane p to offset x
UserScroll(p, x) ==
    /\ MaxScroll(pane[p]) > 0
    /\ x \in 0..MaxScroll(pane[p])
    /\ Rat(x, 1) # pane[p].scrollTop
    /\ pane' = [pane EXCEPT ![p].scrollTop = Rat(x, 1)]
    /\ pendingScroll' = [pendingScroll EXCEPT ![p] = "user"]
    /\ lastEvent' = [kind |-> "user", pane |-> p]
    /\ UNCHANGED <<syncScroll, scrollingPane, timerPending, relayouts>>

\* The content or the viewport of pane p changes size (the divider is
\* dragged, a pane is expanded, another document is shown); the offset is
\* held within the new range, which raises a scroll event when it moves.
Relayout(p, g) ==
    /\ relayouts < MaxRelayouts
    /\ relayouts' = relayouts + 1
    /\ <<pane[p].scrollHeight, pane[p].clientHeight>> # g
    /\ LET el == [pane[p] EXCEPT !.scrollHeight = g[1], !.clientHeight = g[2]]
           top == Clamp(pane[p].scrollTop, el)
       IN /\ pane' = [pane EXCEPT ![p] = [el EXCEPT !.scrollTop = top]]
          /\ pendingScroll' =
                IF top # pane[p].scrollTop
                THEN [pendingScroll EXCEPT ![p] = "layout"]
                ELSE pendingScroll
    /\ lastEvent' = [kind |-> "layout", pane |-> p]
    /\ UNCHANGED <<syncScroll, scrollingPane, timerPending>>

ListenersAlwaysAttached == TRUE

\* The effect attaches the two listeners only while syncScroll is true
\* (if (!syncScroll) return), and its cleanup removes them.
ListenersAttached == syncScroll

OverflowNotChecked(el) == FALSE

\* maxScroll <= 0, the test behind which a handler returns without writing
NoOverflow(el) == MaxScroll(el) <= 0

\* handleOriginalScroll (p = "original") and handleTranslatedScroll
\* (p = "translated"), run for the scroll event queued for pane p.  While
\* syncScroll is false no listener is attached and the event changes nothing.
HandleScroll(p) ==
    /\ pendingScroll[p] # "none"
    /\ LET o == Other(p)
           el == pane[p]
           otherEl == pane[o]
           target == Clamp(TargetScroll(el, otherEl), otherEl)
           observed == [kind |-> "scroll", pane |-> p,
                        origin |-> pendingScroll[p],
                        offset |-> el.scrollTop,
                        otherOffset |-> otherEl.scrollTop,
                        before |-> scrollingPane,
                        listening |-> syncScroll]
       IN IF ~ListenersAttached \/ scrollingPane = o
          THEN \* no listener, or: if (scrollingPane === other) return
               /\ pendingScroll' = [pendingScroll EXCEPT ![p] = "none"]
               /\ lastEvent' = observed @@ [wrote |-> FALSE]
               /\ UNCHANGED <<pane, scrollingPane, timerPending>>
          ELSE IF NoOverflow(el)
          THEN \* scrollingPane = p; if (maxScroll <= 0) return
               /\ scrollingPane' = p
               /\ pendingScroll' = [pendingScroll EXCEPT ![p] = "none"]
               /\ lastEvent' = observed @@ [wrote |-> FALSE]
               /\ UNCHANGED <<pane, timerPending>>
          ELSE /\ scrollingPane' = p
               /\ pane' = [pane EXCEPT ![o].scrollTop = target]
               /\ pendingScroll' =
                     [pendingScroll EXCEPT
                         ![p] = "none",
                         ![o] = IF target # otherEl.scrollTop
                                THEN Queue(@, "mirror") ELSE @]
               /\ timerPending' = TRUE
               /\ lastEvent' = observed @@ [wrote |-> TRUE]
    /\ UNCHANGED <<syncScroll, relayouts>>

\* The callback of setTimeout(..., 50): scrollingPane = null
TimerFire ==
    /\ timerPending
    /\ scrollingPane' = "null"
    /\ timerPending' = FALSE
    /\ lastEvent' = [kind |-> "timer"]
    /\ UNCHANGED <<syncScroll, pane, pendingScroll, relayouts>>

\* The checkbox's onChange: setSyncScroll(e.target.checked).  The effect's
\* cleanup removes the listeners and clears the timeout; when sync is turned
\* on the effect runs again with a fresh scrollingPane and scrollTimeout.
ToggleSync ==
    /\ syncScroll' = ~syncScroll
    /\ scrollingPane' = "null"
    /\ timerPending' = FALSE
    /\ lastEvent' = [kind |-> "toggle"]
    /\ UNCHANGED <<pane, pendingScroll, relayouts>>

----------------------------------------------------------------------------
(* SplitPaneViewer.tsx: the same effect with the time of its timeouts *)

\* setTimeout(..., 50)
SuppressionDelay == 50

\* The step by which time advances in the model, in ms
TickLength == 25

\* if (scrollTimeout) clearTimeout(scrollTimeout)
ClearTimeout(ts) == <<>>

\* scrollTimeout = setTimeout(() => { scrollingPane = null; }, 50)
SetTimeout(ts) == Append(ts, SuppressionDelay)

\* The handler of pane p passes its guard and marks the pane
Marks(p) == ListenersAttached /\ scrollingPane # Other(p)

\* A handler with its timeouts: only the path that writes the other pane
\* reaches the lines that clear the pending timeout and set a new one.
HandleScrollTimed(p) ==
    /\ HandleScroll(p)
    /\ timers' = IF Marks(p) /\ ~NoOverflow(pane[p])
                 THEN SetTimeout(ClearTimeout(timers))
                 ELSE timers
    /\ idle' = IF Marks(p) THEN 0 ELSE idle

\* The callback of a timeout whose delay has passed
TimerFireTimed ==
    /\ timers # <<>>
    /\ timers[1] = 0
    /\ TimerFire
    /\ timers' = Tail(timers)
    /\ idle' = idle

\* The cleanup of the effect clears the timeout
ToggleSyncTimed ==
    /\ ToggleSync
    /\ timers' = ClearTimeout(timers)
    /\ idle' = SuppressionDelay

\* Time passes, up to the next timeout that is due
Tick ==
    /\ timers # <<>> \/ idle < SuppressionDelay
    /\ \A i \in 1..Len(timers) : timers[i] > 0
    /\ LET d == IF timers = <<>> THEN TickLength ELSE Min(TickLength, timers[1])
       IN /\ timers' = [i \in 1..Len(timers) |-> timers[i] - d]
          /\ idle' = Min(idle + d, SuppressionDelay)
    /\ lastEvent' = [kind |-> "tick"]
    /\ UNCHANGED <<syncScroll, pane, scrollingPane, timerPending, pendingScroll,
                   relayouts>>

----------------------------------------------------------------------------
(* DocumentUpload.tsx: processFile *)

MaxRuns == 2

AnyType == {"application/pdf", "image/jpeg", "image/png", "image/tiff",
            "text/plain", "image/gif", ""}

\* validTypes
ValidTypes == {"application/pdf", "image/jpeg", "image/png", "image/tiff",
               "text/plain"}

\* The types of the files dropped or chosen
FileTypes == {"application/pdf", "text/plain", "image/gif", ""}

\* phases of the progress simulation
Phases == <<[status |-> "ocr_processing", targetProgress |-> 50],
            [status |-> "cleaning_text", targetProgress |-> 65],
            [status |-> "translating", targetProgress |-> 85]>>

\* How a fetch ends: a response that is ok, one that is not, or a rejection
Outcomes == {"ok", "not ok", "rejected"}

\* catch (err): setStatus('error'), setError(...), setIsProcessing(false)
Catch ==
    /\ status' = "error"
    /\ error' = "Processing failed"
    /\ isProcessing' = FALSE
    /\ run' = [pc |-> "failed", type |-> run.type, progress |-> progress]

\* processFile(file) up to its first await.  While isProcessing the drop
\* area takes no pointer events and the input is disabled.
ProcessFile(type) ==
    /\ ~isProcessing
    /\ runs < MaxRuns
    /\ runs' = runs + 1
    /\ delivered' = 0
    /\ upEvent' = [kind |-> "file", type |-> type, status |-> status,
                   progress |-> progress, isProcessing |-> isProcessing]
    /\ IF type \notin ValidTypes
       THEN /\ error' = "Please upload a PDF, image file (JPEG, PNG, TIFF), or text file"
            /\ run' = [pc |-> "refused", type |-> type]
            /\ UNCHANGED <<status, progress, isProcessing>>
       ELSE /\ isProcessing' = TRUE
            /\ error' = "null"
            /\ status' = "detecting_language"
            /\ progress' = 15
            /\ run' = [pc |-> "detect", type |-> type]
    /\ UNCHANGED <<intervals, resetPending>>

\* Behind await fetch('/api/detect-language'): a response that is not ok is
\* passed over; then the interval is started and /api/process is fetched.
DetectLanguageResume(outcome) ==
    /\ run.pc = "detect"
    /\ upEvent' = [kind |-> "detect", outcome |-> outcome]
    /\ IF outcome = "rejected"
       THEN /\ Catch
            /\ UNCHANGED <<progress, intervals>>
       ELSE /\ status' = "ocr_processing"
            /\ progress' = 30
            /\ intervals' = Append(intervals, [run |-> runs, currentProgress |-> 30,
                                               currentPhase |-> 0])
            /\ run' = [run EXCEPT !.pc = "process"]
            /\ UNCHANGED <<isProcessing, error>>
    /\ UNCHANGED <<runs, resetPending, delivered>>

\* The callback of setInterval(..., 500), for the i-th interval running
IntervalTick(i) ==
    /\ i \in 1..Len(intervals)
    /\ intervals[i].currentPhase < Len(Phases)
    /\ LET iv == intervals[i]
           phase == Phases[iv.currentPhase + 1]
       IN IF iv.currentProgress < phase.targetProgress
          THEN /\ intervals' = [intervals EXCEPT ![i].currentProgress = @ + 1]
               /\ progress' = iv.currentProgress + 1
               /\ UNCHANGED status
          ELSE /\ intervals' = [intervals EXCEPT ![i].currentPhase = @ + 1]
               /\ status' = IF iv.currentPhase + 1 < Len(Phases)
                            THEN Phases[iv.currentPhase + 2].status
                            ELSE status
               /\ UNCHANGED progress
    /\ upEvent' = [kind |-> "interval", run |-> intervals[i].run]
    /\ UNCHANGED <<isProcessing, error, run, runs, resetPending, delivered>>

\* clearInterval(progressInterval): the interval of the running call
ClearInterval(ivs, r) == SelectSeq(ivs, LAMBDA iv : iv.run # r)

\* Behind await fetch('/api/process'): a rejection goes to the catch at once;
\* a response stops the interval, and one that is not ok is thrown.
ProcessResume(outcome) ==
    /\ run.pc = "process"
    /\ upEvent' = [kind |-> "process", outcome |-> outcome]
    /\ IF outcome = "rejected"
       THEN /\ Catch
            /\ UNCHANGED <<progress, intervals>>
       ELSE IF outcome = "not ok"
       THEN /\ intervals' = ClearInterval(intervals, runs)
            /\ Catch
            /\ UNCHANGED progress
       ELSE /\ intervals' = ClearInterval(intervals, runs)
            /\ status' = "indexing"
            /\ progress' = 95
            /\ run' = [run EXCEPT !.pc = "indexing"]
            /\ UNCHANGED <<isProcessing, error>>
    /\ UNCHANGED <<runs, resetPending, delivered>>

\* Behind the 200 ms of indexing: completed, onDocumentProcessed(...), and
\* the timeout of the reset is started.
IndexingResume ==
    /\ run.pc = "indexing"
    /\ status' = "completed"
    /\ progress' = 100
    /\ delivered' = delivered + 1
    /\ resetPending' = TRUE
    /\ run' = [run EXCEPT !.pc = "done"]
    /\ upEvent' = [kind |-> "delivered", status |-> status', type |-> run.type]
    /\ UNCHANGED <<isProcessing, error, runs, intervals>>

\* The callback of setTimeout(..., 2000)
ResetTimeout ==
    /\ resetPending
    /\ resetPending' = FALSE
    /\ status' = "idle"
    /\ progress' = 0
    /\ isProcessing' = FALSE
    /\ upEvent' = [kind |-> "reset"]
    /\ UNCHANGED <<error, run, runs, intervals, delivered>>

----------------------------------------------------------------------------
(* The status-polling loops: extractTextFromPDF and extractTextFromImage   *)
(* (lib and process route), ocrService.waitForCompletion                    *)

PdfMaxAttempts == 60
ImageMaxAttempts == 90
OcrMaxAttempts == 60

PollFns == {"extractTextFromPDF", "extractTextFromImage", "waitForCompletion"}

\* maxAttempts of the loop (the default, for waitForCompletion)
MaxAttempts(fn) ==
    IF fn = "extractTextFromPDF" THEN PdfMaxAttempts
    ELSE IF fn = "extractTextFromImage" THEN ImageMaxAttempts
    ELSE OcrMaxAttempts

\* What a status request can report: a response that is not ok, the status
\* completed or failed, or any other status
PollAnswers == {"not ok", "completed", "failed", "pending"}

LoopsForever(n, max) == TRUE

\* while (attempts < maxAttempts) / for (...; i < maxAttempts; ...)
LoopContinues(n, max) == n < max

\* One turn of the loop: the status request and what follows from its
\* answer; behind any other status the loop sleeps 2000 ms and counts.
\* waitForCompletion returns the status itself; the two others download the
\* text first.
Poll(answer) ==
    /\ pollState = "polling"
    /\ LoopContinues(attempts, MaxAttempts(pollFn))
    /\ polls' = polls + 1
    /\ lastPoll' = answer
    /\ IF answer = "pending"
       THEN /\ attempts' = attempts + 1
            /\ UNCHANGED pollState
       ELSE /\ pollState' =
                  IF answer \in {"not ok", "failed"} THEN "thrown"
                  ELSE IF pollFn = "waitForCompletion" THEN "returned"
                  ELSE "text"
            /\ UNCHANGED attempts
    /\ UNCHANGED pollFn

\* Behind the download of the text: return it, or throw when the response
\* is not ok
TextResume(ok) ==
    /\ pollState = "text"
    /\ pollState' = IF ok THEN "returned" ELSE "thrown"
    /\ lastPoll' = IF ok THEN lastPoll ELSE "text not ok"
    /\ UNCHANGED <<pollFn, attempts, polls>>

\* The loop is left by its condition: throw new Error('... timed out')
PollTimeout ==
    /\ pollState = "polling"
    /\ ~LoopContinues(attempts, MaxAttempts(pollFn))
    /\ pollState' = "thrown"
    /\ lastPoll' = "timed out"
    /\ UNCHANGED <<pollFn, attempts, polls>>

----------------------------------------------------------------------------
(* POST /api/process for a PDF, and GET /api/vaults/{vaultId}/documents/    *)
(* {objectId} for the object it created                                     *)

\* The metadata of an object without mlp_* fields
NoMeta == [saved |-> FALSE]

\* No answer yet
NoResponse == [status |-> 0]

\* text.length < 50, originalText.length > 50
CleanupThreshold == 50

\* A text of n characters
TextOfLength(n) == [i \in 1..n |-> "a"]

\* What the vault extracts from a PDF: nothing, a short text, a long one
ExtractedTexts == {<<>>, <<"a">>, TextOfLength(CleanupThreshold + 1)}

\* detectedLang.language: English, another language, or 'unknown' when the
\* detection failed
Languages == {"en", "ja", "unknown"}

\* The content a chat completion returns
LlmContents == {<<>>, <<"t">>, <<"u">>}

\* An LLM call: its content, or a failure (response not ok, or an exception)
LlmOutcomes ==
    {[ok |-> TRUE, content |-> c] : c \in LlmContents}
        \cup {[ok |-> FALSE, content |-> <<>>]}

\* cleanupOCRText of the process route
CleanupOCRText(text, llm) ==
    IF Len(text) < CleanupThreshold THEN text
    ELSE IF ~llm.ok THEN text
    ELSE llm.content

\* translateText of the process route
TranslateText(text, llm) ==
    IF ~llm.ok THEN <<"[", "!", "]">> \o text ELSE llm.content

\* cleanupOCRText of the document route
CleanupOCRTextGet(text, language, llm) ==
    IF Len(text) < CleanupThreshold \/ language = "en" THEN text
    ELSE IF ~llm.ok THEN text
    ELSE llm.content

\* translateText of the document route
TranslateTextGet(text, llm) ==
    IF ~llm.ok THEN text ELSE llm.content

\* detectLanguageWithLLM of the document route
DetectLanguageGet(text, detected) ==
    IF Len(text) < CleanupThreshold THEN "en" ELSE detected

\* The PATCH of the metadata: what the object's metadata holds afterwards
SavedMeta(originalText, translatedText, language) ==
    [saved |-> TRUE, mlp_original_text |-> originalText,
     mlp_translation |-> translatedText, mlp_detected_language |-> language]

\* POST /api/process for a PDF: detection, extraction (which may fail),
\* cleanup and translation of a text that is not English, then the save of
\* the metadata, whose failure is swallowed.
PostProcessPdf(text, language, extracted, cleanLlm, translateLlm, saveOk) ==
    /\ postResponse = NoResponse
    /\ IF ~extracted
       THEN /\ postResponse' = [status |-> 500]
            /\ UNCHANGED <<vaultText, vaultMeta>>
       ELSE LET originalText ==
                   IF language # "en" /\ Len(text) > CleanupThreshold
                   THEN CleanupOCRText(text, cleanLlm) ELSE text
                translatedText ==
                   IF language # "en"
                   THEN TranslateText(originalText, translateLlm)
                   ELSE originalText
            IN /\ vaultText' = text
               /\ vaultMeta' = IF saveOk
                               THEN SavedMeta(originalText, translatedText, language)
                               ELSE vaultMeta
               /\ postResponse' = [status |-> 200,
                                   originalText |-> originalText,
                                   translatedText |-> translatedText,
                                   detectedLanguage |-> language,
                                   saved |-> saveOk]
    /\ UNCHANGED <<getResponse, getCalls>>

\* if (cachedOriginalText && cachedTranslation && cachedLanguage)
HasAllCachedData(meta) ==
    /\ meta.saved
    /\ meta.mlp_original_text # <<>>
    /\ meta.mlp_translation # <<>>
    /\ meta.mlp_detected_language # ""

\* GET of the document: the cached data when all of it is there; else the
\* raw text is fetched, the language detected unless cached, and a text that
\* is not English is cleaned up, translated and saved.
GetDocument(textOk, detected, cleanLlm, translateLlm, saveOk) ==
    /\ postResponse.status = 200
    /\ getResponse = NoResponse
    /\ IF HasAllCachedData(vaultMeta)
       THEN /\ getResponse' = [status |-> 200,
                                originalText |-> vaultMeta.mlp_original_text,
                                translatedText |-> vaultMeta.mlp_translation,
                                detectedLanguage |-> vaultMeta.mlp_detected_language,
                                cached |-> TRUE]
            /\ getCalls' = {}
            /\ UNCHANGED vaultMeta
       ELSE IF ~textOk
       THEN /\ getResponse' = [status |-> 502]
            /\ getCalls' = {"text"}
            /\ UNCHANGED vaultMeta
       ELSE LET rawText == vaultText
                hasLanguage == vaultMeta.saved /\ vaultMeta.mlp_detected_language # ""
                language == IF hasLanguage THEN vaultMeta.mlp_detected_language
                            ELSE DetectLanguageGet(rawText, detected)
                cleaned == CleanupOCRTextGet(rawText, language, cleanLlm)
                translated == IF language # "en"
                              THEN TranslateTextGet(cleaned, translateLlm)
                              ELSE cleaned
            IN /\ getResponse' = [status |-> 200, originalText |-> cleaned,
                                   translatedText |-> translated,
                                   detectedLanguage |-> language,
                                   cached |-> FALSE]
               /\ getCalls' = {"text"}
                     \cup (IF hasLanguage THEN {} ELSE {"detect"})
                     \cup (IF language # "en" THEN {"cleanup", "translate", "save"}
                           ELSE {})
               /\ vaultMeta' = IF language # "en" /\ saveOk
                               THEN SavedMeta(cleaned, translated, language)
                               ELSE vaultMeta
    /\ UNCHANGED <<vaultText, postResponse>>

----------------------------------------------------------------------------
(* The names of the vaults: getOrCreateVault of the process route and       *)
(* isAppVault of GET /api/vaults                                            *)

MaxUploads == 2

\* s ends with t (String.prototype.endsWith)
EndsWith(s, t) ==
    /\ Len(t) <= Len(s)
    /\ SubSeq(s, Len(s) - Len(t) + 1, Len(s)) = t

\* s starts with t (String.prototype.startsWith)
StartsWith(s, t) ==
    /\ Len(t) <= Len(s)
    /\ SubSeq(s, 1, Len(t)) = t

\* ' Translation'
TranslationSuffix == <<" ", "T", "r", "a", "n", "s", "l", "a", "t", "i", "o", "n">>

\* 'Documents for translation'
LegacySuffix ==
    <<"D", "o", "c", "u", "m", "e", "n", "t", "s", " ", "f", "o", "r", " ", "t", "r", "a", "n", "s", "l", "a", "t", "i", "o", "n">>

\* 'multi-lang-processor-'
LegacyPrefix ==
    <<"m", "u", "l", "t", "i", "-", "l", "a", "n", "g", "-", "p", "r", "o", "c", "e", "s", "s", "o", "r", "-">>

\* filename.lastIndexOf('.'), 0-based, -1 without a dot
RECURSIVE LastDot(_, _)
LastDot(filename, i) ==
    IF i = 0 THEN -1
    ELSE IF filename[i] = "." THEN i - 1
    ELSE LastDot(filename, i - 1)

\* getDocumentBaseName(filename)
getDocumentBaseName(filename) ==
    LET lastDot == LastDot(filename, Len(filename))
    IN IF lastDot > 0 THEN Slice(filename, 0, lastDot) ELSE filename

\* The name getOrCreateVault gives a new vault: `${documentName} Translation`
\* in the route in use, `multi-lang-processor-${Date.now()}` in the legacy
\* route
NewVaultName(filename, legacy, now) ==
    IF legacy THEN LegacyPrefix \o now
    ELSE getDocumentBaseName(filename) \o TranslationSuffix

\* isAppVault(vaultName)
isAppVault(vaultName) ==
    \/ EndsWith(vaultName, TranslationSuffix)
    \/ EndsWith(vaultName, LegacySuffix)
    \/ StartsWith(vaultName, LegacyPrefix)

\* A vault of the server: its id and its name, when it has one
Vault(id, named, name) == [id |-> id, named |-> named, name |-> name]

\* getOrCreateVault for an upload: the configured vault when CASE_VAULT_ID
\* is set, else a new vault; the creation may fail, which is thrown.
GetOrCreateVault(filename, legacy, now, created) ==
    /\ Cardinality(usedVaults) < MaxUploads
    /\ IF envVaultId # 0
       THEN /\ usedVaults' = usedVaults \cup {envVaultId}
            /\ UNCHANGED vaults
       ELSE IF ~created
       THEN UNCHANGED <<vaults, usedVaults>>
       ELSE /\ vaults' = Append(vaults,
                             Vault(Len(vaults) + 1, TRUE,
                                   NewVaultName(filename, legacy, now)))
            /\ usedVaults' = usedVaults \cup {Len(vaults) + 1}
    /\ UNCHANGED <<envVaultId, listed>>

\* GET /api/vaults: the vaults that have a name which isAppVault accepts
GetVaults(ok) ==
    /\ listed' =
          IF ok
          THEN [status |-> 200,
                vaults |-> SelectSeq(vaults,
                              LAMBDA v : v.named /\ isAppVault(v.name)),
                used |-> usedVaults]
          ELSE [status |-> 500]
    /\ listed' # listed
    /\ UNCHANGED <<vaults, envVaultId, usedVaults>>

----------------------------------------------------------------------------
(* Specifications of the search component *)

SearchIdle ==
    /\ documents = <<>>
    /\ query = <<>>
    /\ searchLanguage = "all"
    /\ isSearching = FALSE
    /\ results = <<>>
    /\ inflight = <<>>
    /\ pageSearchQuery = <<>>
    /\ searched = NoSearch
    /\ userAction = NoAction

\* selectedDocument === null
NoDocument == [id |-> 0]

\* A document open in the viewer
OpenDocument == [id |-> 1, originalText |-> <<"a">>, translatedText |-> <<"b">>]

\* The page shows the given view with the given document selected
PageAt(mode, doc) ==
    /\ viewMode = mode
    /\ selectedDocument = doc

HighlightIdle ==
    /\ hText = <<>>
    /\ hQuery = <<>>
    /\ hChunks = <<>>
    /\ hHighlights = <<>>
    /\ hParts = <<>>
    /\ hRendered = FALSE

\* No timeout is pending and the last handler ran long ago
ClockIdle ==
    /\ timers = <<>>
    /\ idle = SuppressionDelay

\* highlightedChunks as useState() leaves it
Undefined == [defined |-> FALSE]

NoLoad == [kind |-> "none"]

\* Home as first rendered: no chunks, no vault, nothing loading
VaultIdle ==
    /\ highlightedChunks = Undefined
    /\ chunksFrom = 0
    /\ selectedVaultId = "null"
    /\ isLoadingFromVault = FALSE
    /\ vaultLoad = NoLoad

NoRun == [pc |-> "none"]

\* DocumentUpload as first rendered
UploadIdle ==
    /\ status = "idle"
    /\ progress = 0
    /\ isProcessing = FALSE
    /\ error = "null"
    /\ run = NoRun
    /\ runs = 0
    /\ intervals = <<>>
    /\ resetPending = FALSE
    /\ delivered = 0
    /\ upEvent = NoEvent

\* No loop is running
PollIdle ==
    /\ pollFn = "none"
    /\ attempts = 0
    /\ pollState = "returned"
    /\ polls = 0
    /\ lastPoll = "none"

\* No object has been uploaded and no request made
CacheIdle ==
    /\ vaultText = <<>>
    /\ vaultMeta = NoMeta
    /\ postResponse = NoResponse
    /\ getResponse = NoResponse
    /\ getCalls = {}

\* An account without vaults, no vault configured, nothing listed
NamesIdle ==
    /\ vaults = <<>>
    /\ envVaultId = 0
    /\ usedVaults = {}
    /\ listed = [status |-> 0]

ExtraIdle == VaultIdle /\ UploadIdle /\ PollIdle /\ CacheIdle /\ NamesIdle

ScrollIdle ==
    /\ ClockIdle
    /\ syncScroll = TRUE
    /\ pane = [p \in Panes |-> Element(<<0, 0>>)]
    /\ scrollingPane = "null"
    /\ timerPending = FALSE
    /\ pendingScroll = [p \in Panes |-> "none"]
    /\ lastEvent = NoEvent
    /\ relayouts = 0

----------------------------------------------------------------------------
(* The Home page: the view shown, the documents, the selected document.     *)
(* No vault is selected (selectedVaultId is null), so that a document        *)
(* without text is never fetched.                                            *)

ViewModes == {"upload", "viewer", "search"}

\* {viewMode === 'search' && <BilingualSearch ... />}
SearchMounted(mode) == mode = "search"

\* {viewMode === 'viewer' && selectedDocument && <SplitPaneViewer ... />}
ViewerMounted(mode, doc) == mode = "viewer" /\ doc # NoDocument

\* What a render with the view mode `mode` does to BilingualSearch: when the
\* component leaves the page its state is gone (the next one mounted starts
\* from the initial state) and the calls it has in flight are orphaned.
SearchCommit(mode) ==
    IF SearchMounted(viewMode) /\ ~SearchMounted(mode)
    THEN /\ query' = <<>>
         /\ searchLanguage' = "all"
         /\ isSearching' = FALSE
         /\ results' = <<>>
         /\ searched' = NoSearch
         /\ userAction' = NoAction
         /\ inflight' = [i \in 1..Len(inflight) |->
                            [inflight[i] EXCEPT !.orphan = TRUE]]
    ELSE UNCHANGED <<query, searchLanguage, isSearching, results, searched,
                     userAction, inflight>>

\* A pane keeps its element and its scrollTop when its content changes; the
\* offset is held within the new range.
Refit(el, g) ==
    LET sized == [el EXCEPT !.scrollHeight = g[1], !.clientHeight = g[2]]
    IN [sized EXCEPT !.scrollTop = Clamp(el.scrollTop, sized)]

\* What a render with the view mode `mode` and the selected document `doc`
\* does to SplitPaneViewer; g is the pair of <<scrollHeight, clientHeight>>
\* that the document's two texts take in the panes.
\*  - mounted: a new component, syncScroll true, both panes at the top;
\*  - unmounted: the effect's cleanup runs and the elements are gone;
\*  - still mounted, another document: the same component and the same two
\*    elements show the new texts; the effect depends on syncScroll only and
\*    does not run again.
ViewerCommit(mode, doc, g) ==
    LET was == ViewerMounted(viewMode, selectedDocument)
        is == ViewerMounted(mode, doc)
        fit == [p \in Panes |->
                   Refit(pane[p], IF p = "original" THEN g[1] ELSE g[2])]
    IN IF ~was /\ is
       THEN /\ syncScroll' = TRUE
            /\ pane' = [p \in Panes |->
                           Element(IF p = "original" THEN g[1] ELSE g[2])]
            /\ scrollingPane' = "null"
            /\ timerPending' = FALSE
            /\ pendingScroll' = [p \in Panes |-> "none"]
            /\ lastEvent' = [kind |-> "mount"]
            /\ UNCHANGED relayouts
       ELSE IF was /\ ~is
       THEN /\ syncScroll' = TRUE
            /\ pane' = [p \in Panes |-> Element(<<0, 0>>)]
            /\ scrollingPane' = "null"
            /\ timerPending' = FALSE
            /\ pendingScroll' = [p \in Panes |-> "none"]
            /\ lastEvent' = [kind |-> "unmount"]
            /\ UNCHANGED relayouts
       ELSE IF was /\ is /\ doc # selectedDocument
       THEN /\ pane' = fit
            /\ pendingScroll' =
                  [p \in Panes |->
                      IF fit[p].scrollTop # pane[p].scrollTop
                      THEN "layout" ELSE pendingScroll[p]]
            /\ lastEvent' = [kind |-> "document"]
            /\ IF fit = pane THEN UNCHANGED relayouts
               ELSE /\ relayouts < MaxRelayouts
                    /\ relayouts' = relayouts + 1
            /\ UNCHANGED <<syncScroll, scrollingPane, timerPending>>
       ELSE UNCHANGED scrollVars

\* The navigation buttons: setViewMode(mode); "Viewer" is disabled without a
\* selected document and "Search" without documents.
SetViewMode(mode, g) ==
    /\ mode = "viewer" => selectedDocument # NoDocument
    /\ mode = "search" => documents # <<>>
    /\ viewMode' = mode
    /\ SearchCommit(mode)
    /\ ViewerCommit(mode, selectedDocument, g)
    /\ UNCHANGED <<documents, pageSearchQuery, selectedDocument>>

\* handleSelectDocument(docId): a click on a document of the sidebar or on a
\* search result.  A document without text is not loaded, no vault being
\* selected.  (setHighlightedChunks sets an input of highlightText, which is
\* modelled as a function of its inputs.)
HandleSelectDocument(docId, g) ==
    /\ \E i \in 1..Len(documents) : documents[i].id = docId
    /\ LET doc == documents[CHOOSE i \in 1..Len(documents) :
                                documents[i].id = docId]
       IN IF doc.originalText # <<>>
          THEN /\ selectedDocument' = doc
               /\ viewMode' = "viewer"
               /\ SearchCommit("viewer")
               /\ ViewerCommit("viewer", doc, g)
          ELSE UNCHANGED <<selectedDocument, viewMode, query, searchLanguage,
                           isSearching, results, searched, userAction,
                           inflight, scrollVars>>
    /\ UNCHANGED <<documents, pageSearchQuery>>

\* prev.map(d => d.id === doc.id ? newDoc : d)
ReplaceDocument(docs, newDoc) ==
    [i \in 1..Len(docs) |-> IF docs[i].id = newDoc.id THEN newDoc ELSE docs[i]]

\* handleDocumentProcessed(doc): an upload has been processed
HandleDocumentProcessed(newDoc, g) ==
    /\ documents' =
          IF \E i \in 1..Len(documents) : documents[i].id = newDoc.id
          THEN ReplaceDocument(documents, newDoc)
          ELSE Append(documents, newDoc)
    /\ selectedDocument' = newDoc
    /\ viewMode' = "viewer"
    /\ SearchCommit("viewer")
    /\ ViewerCommit("viewer", newDoc, g)
    /\ UNCHANGED pageSearchQuery

\* handleDeleteDocument(docId): the bin of a document of the sidebar
HandleDeleteDocument(docId, g) ==
    /\ \E i \in 1..Len(documents) : documents[i].id = docId
    /\ documents' = SelectSeq(documents, LAMBDA d : d.id # docId)
    /\ IF selectedDocument.id = docId
       THEN /\ selectedDocument' = NoDocument
            /\ viewMode' = "upload"
            /\ SearchCommit("upload")
            /\ ViewerCommit("upload", NoDocument, g)
       ELSE UNCHANGED <<selectedDocument, viewMode, query, searchLanguage,
                        isSearching, results, searched, userAction,
                        inflight, scrollVars>>
    /\ UNCHANGED pageSearchQuery

----------------------------------------------------------------------------
(* The Home page with the pinned chunks and a vault as the source *)

\* The vaults of the selector and the documents the server holds in them
VaultIds == {"v", "w"}

VaultContent(vaultId) ==
    IF vaultId = "v"
    THEN <<[id |-> 2, originalText |-> <<"a">>, translatedText |-> <<"b">>],
           [id |-> 3, originalText |-> <<"a">>, translatedText |-> <<"b">>]>>
    ELSE <<>>

\* The body of GET /api/vaults/{vaultId}/documents/{docId}
VaultDocument(vaultId, docId) ==
    LET docs == VaultContent(vaultId)
    IN docs[CHOOSE i \in 1..Len(docs) : docs[i].id = docId]

\* The server has the document in the vault: without it the response to the
\* fetch is not ok
InVault(vaultId, docId) ==
    \E i \in 1..Len(VaultContent(vaultId)) : VaultContent(vaultId)[i].id = docId

\* placeholderDocs: every document of the vault, without its texts
Placeholders(vaultDocs) ==
    [i \in 1..Len(vaultDocs) |->
        [id |-> vaultDocs[i].id, originalText |-> <<>>, translatedText |-> <<>>]]

\* The overlay shown while isLoadingFromVault covers the whole page
\* (fixed inset-0 z-50): no click reaches the page under it.
PageClickable == ~isLoadingFromVault

\* handleSelectDocument(docId, chunks) with its two paths: a loaded document
\* is selected with the chunks given; a placeholder is fetched from the
\* selected vault, the call being suspended at the fetch.
HandleSelectDocumentFrom(docId, chunks, from, g) ==
    /\ HandleSelectDocument(docId, g)
    /\ LET doc == documents[CHOOSE i \in 1..Len(documents) :
                                documents[i].id = docId]
       IN IF doc.originalText # <<>>
          THEN /\ highlightedChunks' = chunks
               /\ chunksFrom' = from
               /\ UNCHANGED <<selectedVaultId, isLoadingFromVault, vaultLoad>>
          ELSE IF selectedVaultId # "null"
          THEN /\ isLoadingFromVault' = TRUE
               /\ vaultLoad' = [kind |-> "select", vault |-> selectedVaultId,
                                docId |-> docId, chunks |-> chunks,
                                from |-> from]
               /\ UNCHANGED <<highlightedChunks, chunksFrom, selectedVaultId>>
          ELSE UNCHANGED vaultVars

\* onClick={() => handleSelectDocument(doc.id)}: a document of the sidebar
SidebarSelect(docId, g) ==
    /\ PageClickable
    /\ HandleSelectDocumentFrom(docId, Undefined, 0, g)

\* The texts of the matches of a result, as handleResultClick collects them
RECURSIVE MatchTexts(_)
MatchTexts(matches) ==
    IF matches = <<>> THEN <<>>
    ELSE <<Head(matches).text>> \o MatchTexts(Tail(matches))

\* handleResultClick(result): a click on the k-th result of the search view
HandleResultClick(k, g) ==
    /\ PageClickable
    /\ SearchMounted(viewMode)
    /\ k \in 1..Len(results)
    /\ HandleSelectDocumentFrom(
          results[k].documentId,
          [original |-> MatchTexts(results[k].originalMatches),
           translated |-> MatchTexts(results[k].translatedMatches)],
          results[k].documentId, g)

\* The end of a load: finally { setIsLoadingFromVault(false) }
LoadFinished ==
    /\ isLoadingFromVault' = FALSE
    /\ vaultLoad' = NoLoad

\* What the page does with the document fetched: setDocuments(prev =>
\* prev.map(...)), setSelectedDocument(processedDoc), setViewMode('viewer')
ShowFetched(processedDoc, g) ==
    /\ documents' = ReplaceDocument(documents, processedDoc)
    /\ selectedDocument' = processedDoc
    /\ viewMode' = "viewer"
    /\ SearchCommit("viewer")
    /\ ViewerCommit("viewer", processedDoc, g)
    /\ UNCHANGED pageSearchQuery

PageUnchanged ==
    UNCHANGED <<documents, selectedDocument, viewMode, query, searchLanguage,
                isSearching, results, searched, userAction, inflight,
                pageSearchQuery, scrollVars>>

\* handleSelectDocument behind its fetch: the response is ok or it is not
SelectLoadResume(ok, g) ==
    /\ vaultLoad.kind = "select"
    /\ ok => InVault(vaultLoad.vault, vaultLoad.docId)
    /\ IF ok
       THEN /\ ShowFetched(VaultDocument(vaultLoad.vault, vaultLoad.docId), g)
            /\ highlightedChunks' = vaultLoad.chunks
            /\ chunksFrom' = vaultLoad.from
       ELSE /\ PageUnchanged
            /\ UNCHANGED <<highlightedChunks, chunksFrom>>
    /\ LoadFinished
    /\ UNCHANGED selectedVaultId

\* handleVaultSelect(vaultId) of the selector, and the button "Upload New"
\* (vaultId null); the effect calls loadVaultDocuments when the id changes
\* to a vault, and the call is suspended at its first fetch.
HandleVaultSelect(vaultId) ==
    /\ PageClickable
    /\ viewMode = "upload"
    /\ selectedVaultId' = vaultId
    /\ IF vaultId # "null" /\ vaultId # selectedVaultId
       THEN /\ isLoadingFromVault' = TRUE
            /\ vaultLoad' = [kind |-> "list", vault |-> vaultId]
       ELSE UNCHANGED <<isLoadingFromVault, vaultLoad>>
    /\ PageUnchanged
    /\ UNCHANGED <<highlightedChunks, chunksFrom>>

\* loadVaultDocuments behind the fetch of the list: nothing for an empty
\* vault; else the placeholders replace the documents and the first document
\* is fetched.
VaultListResume(ok) ==
    /\ vaultLoad.kind = "list"
    /\ LET vaultDocs == VaultContent(vaultLoad.vault)
       IN IF ok /\ vaultDocs # <<>>
          THEN /\ documents' = Placeholders(vaultDocs)
               /\ vaultLoad' = [kind |-> "first", vault |-> vaultLoad.vault,
                                docId |-> vaultDocs[1].id]
               /\ UNCHANGED isLoadingFromVault
          ELSE /\ LoadFinished
               /\ UNCHANGED documents
    /\ UNCHANGED <<selectedDocument, viewMode, query, searchLanguage,
                   isSearching, results, searched, userAction, inflight,
                   pageSearchQuery, scrollVars, highlightedChunks, chunksFrom,
                   selectedVaultId>>

\* loadVaultDocuments behind the fetch of the first document
VaultFirstResume(ok, g) ==
    /\ vaultLoad.kind = "first"
    /\ ok => InVault(vaultLoad.vault, vaultLoad.docId)
    /\ IF ok
       THEN ShowFetched(VaultDocument(vaultLoad.vault, vaultLoad.docId), g)
       ELSE PageUnchanged
    /\ LoadFinished
    /\ UNCHANGED <<highlightedChunks, chunksFrom, selectedVaultId>>

\* The text and the query of spec.md's ranking example
ExampleText == <<"c", "a", "t", NL, "c", "a", "t", " ", "c", "a", "t", NL,
                 "b", "i", "r", "d">>
ExampleQuery == <<"c", "a", "t">>

MatchInputs ==
    (Strs(Alphabet, MaxTextLen) \X Strs(Alphabet, MaxQueryLen))
        \cup {<<ExampleText, ExampleQuery>>}

\* The match engine as a function: performSearch applied once to one document
\* whose original side is any text, with any query.
InitMatch ==
    /\ ExtraIdle
    /\ \E in \in MatchInputs :
          /\ documents = <<[id |-> 1, originalText |-> in[1],
                            translatedText |-> <<>>]>>
          /\ query = in[2]
    /\ searchLanguage = "original"
    /\ isSearching = FALSE
    /\ results = <<>>
    /\ inflight = <<>>
    /\ pageSearchQuery = <<>>
    /\ searched = NoSearch
    /\ userAction = NoAction
    /\ HighlightIdle
    /\ ScrollIdle
    /\ PageAt("search", NoDocument)

CallPerformSearch ==
    /\ ~searched.done
    /\ inflight = <<>>
    /\ PerformSearchStart(query)
    /\ userAction' = Submitted(query)
    /\ UNCHANGED <<documents, query, searchLanguage>>

NextMatch ==
    \/ CallPerformSearch /\ UNCHANGED <<highlightVars, scrollVars, pageVars, extraVars>>
    \/ PerformSearchResume /\ UNCHANGED <<highlightVars, scrollVars, pageVars, extraVars>>

SpecMatch == InitMatch /\ [][NextMatch]_vars

\* The search component on a fixed corpus
MaxDocs == 3

TextA == <<"a">>
TextB == <<"b">>
TextABA == <<"a", NL, "b", NL, "A">>

\* (originalText, translatedText) of the documents drawn; the last is the
\* placeholder that loadVaultDocuments creates for a document not yet loaded
DocPool == {<<TextA, TextB>>, <<TextABA, TextA>>, <<TextB, TextB>>, <<<<>>, <<>>>>}

Corpora ==
    UNION {{[i \in 1..n |-> [id |-> i, originalText |-> f[i][1],
                             translatedText |-> f[i][2]]] :
                f \in [1..n -> DocPool]} : n \in 0..MaxDocs}

Queries == {<<>>, <<" ">>, <<"a">>, <<"A">>, <<"b">>}

InitSearch ==
    /\ ExtraIdle
    /\ documents \in Corpora
    /\ query = <<>>
    /\ searchLanguage = "all"
    /\ isSearching = FALSE
    /\ results = <<>>
    /\ inflight = <<>>
    /\ pageSearchQuery = <<>>
    /\ searched = NoSearch
    /\ userAction = NoAction
    /\ HighlightIdle
    /\ ScrollIdle
    /\ PageAt("search", NoDocument)

NextSearch ==
    \/ \E q \in Queries : SetQuery(q) /\ UNCHANGED <<highlightVars, scrollVars, pageVars, extraVars>>
    \/ \E scope \in Scopes :
          SetSearchLanguage(scope) /\ UNCHANGED <<highlightVars, scrollVars, pageVars, extraVars>>
    \/ HandleSearch /\ UNCHANGED <<highlightVars, scrollVars, pageVars, extraVars>>
    \/ PerformSearchResume /\ UNCHANGED <<highlightVars, scrollVars, pageVars, extraVars>>
    \/ ClearSearch /\ UNCHANGED <<highlightVars, scrollVars, pageVars, extraVars>>

SpecSearch == InitSearch /\ [][NextSearch]_vars

----------------------------------------------------------------------------
(* Properties of the match engine, checked under SpecMatch *)

Range(f) == {f[i] : i \in DOMAIN f}

\* The text and the query of the completed search, and what it found
SearchedText == searched.docs[1].originalText
SearchedQuery == searched.query
FoundMatches == IF results = <<>> THEN <<>> ELSE results[1].originalMatches

\* q occurs in t, compared without regard to case
OccursIn(t, q) ==
    \E i \in 0..Len(t) :
        /\ i + Len(q) <= Len(t)
        /\ \A k \in 1..Len(q) : LowerChar(t[i + k]) = LowerChar(q[k])

WhitespaceOnly(q) == \A i \in 1..Len(q) : q[i] \in {" ", NL}

\* The 0-based indices of the lines of t that contain q
HitLines(t, q) ==
    {i \in 0..(Len(Split(t)) - 1) : OccursIn(Split(t)[i + 1], q)}

\* The lowest hit line of t whose context window is w
FirstHitLine(t, q, w) ==
    CHOOSE i \in HitLines(t, q) :
        /\ Context(Split(t), i) = w
        /\ \A j \in HitLines(t, q) : Context(Split(t), j) = w => i <= j

\* C3 as claimed: for every text T and every non-empty query Q that occurs
\* case-insensitively in T, the search returns a non-empty sequence and every
\* returned candidate's text contains Q case-insensitively.
C3_AnyNonEmptyQueryFound ==
    (/\ searched.done
     /\ SearchedQuery # <<>>
     /\ OccursIn(SearchedText, SearchedQuery))
    => /\ FoundMatches # <<>>
       /\ \A i \in 1..Len(FoundMatches) :
             OccursIn(FoundMatches[i].text, SearchedQuery)

\* C3 amended: the same for every query that contains no newline and is not
\* made of white space only.
C3_LineQueryFound ==
    (/\ searched.done
     /\ ~WhitespaceOnly(SearchedQuery)
     /\ NL \notin Range(SearchedQuery)
     /\ OccursIn(SearchedText, SearchedQuery))
    => /\ FoundMatches # <<>>
       /\ \A i \in 1..Len(FoundMatches) :
             OccursIn(FoundMatches[i].text, SearchedQuery)

\* A search whose query differs in case from the text it hits on two lines
C3_Witness ==
    /\ searched.done
    /\ ~WhitespaceOnly(SearchedQuery)
    /\ NL \notin Range(SearchedQuery)
    /\ OccursIn(SearchedText, SearchedQuery)
    /\ ~Includes(SearchedText, SearchedQuery)
    /\ Len(FoundMatches) >= 2

\* C4: a search with the empty query returns the empty sequence, whatever
\* the text is: no line is matched and no score is computed.
C4_EmptyQueryFindsNothing ==
    (searched.done /\ SearchedQuery = <<>>)
    => /\ results = <<>>
       /\ FoundMatches = <<>>

\* An empty query searched in a text of several lines, one of them empty
C4_Witness ==
    /\ searched.done
    /\ SearchedQuery = <<>>
    /\ Len(Split(SearchedText)) >= 2
    /\ <<>> \in Range(Split(SearchedText))
    /\ results = <<>>

\* C5: no two returned candidates have the same window text; each window of
\* a hit line is returned once, with the score of the lowest hit line that
\* produces it.
C5_DeduplicatedFirstWins ==
    searched.done =>
        LET t == SearchedText
            q == SearchedQuery
            lines == Split(t)
        IN /\ \A k, l \in 1..Len(FoundMatches) :
                 FoundMatches[k].text = FoundMatches[l].text => k = l
           /\ ~WhitespaceOnly(q) =>
                 \A i \in HitLines(t, q) :
                     \E k \in 1..Len(FoundMatches) :
                         FoundMatches[k].text = Context(lines, i)
           /\ \A k \in 1..Len(FoundMatches) :
                 LET i == FirstHitLine(t, q, FoundMatches[k].text)
                 IN FoundMatches[k].score =
                        Score(Occurrences(lines[i + 1], ToLower(q)),
                              Len(lines[i + 1]))

\* Two hit lines with the same window and different scores
C5_Witness ==
    /\ searched.done
    /\ FoundMatches # <<>>
    /\ \E i, j \in HitLines(SearchedText, SearchedQuery) :
          LET lines == Split(SearchedText)
              q == ToLower(SearchedQuery)
          IN /\ i < j
             /\ Context(lines, i) = Context(lines, j)
             /\ ~ScoreEqual(Score(Occurrences(lines[i + 1], q), Len(lines[i + 1])),
                            Score(Occurrences(lines[j + 1], q), Len(lines[j + 1])))

\* C6: the candidates are in descending order of score, candidates of equal
\* score in the order of their hit lines; the example of the ranking test
\* returns the window of line "cat" (1/3) before that of "cat cat" (2/7).
C6_RankedByScore ==
    searched.done =>
        /\ \A k, l \in 1..Len(FoundMatches) :
              k < l =>
                 /\ ~ScoreGreater(FoundMatches[l].score, FoundMatches[k].score)
                 /\ ScoreEqual(FoundMatches[k].score, FoundMatches[l].score)
                       => FirstHitLine(SearchedText, SearchedQuery, FoundMatches[k].text)
                            < FirstHitLine(SearchedText, SearchedQuery, FoundMatches[l].text)
        /\ (SearchedText = ExampleText /\ SearchedQuery = ExampleQuery)
              => FoundMatches =
                    <<[text |-> SubSeq(ExampleText, 1, 11), score |-> Score(1, 3)],
                      [text |-> ExampleText, score |-> Score(2, 7)]>>

\* The ranking example has been searched
C6_Witness ==
    /\ searched.done
    /\ SearchedText = ExampleText
    /\ SearchedQuery = ExampleQuery
    /\ Len(FoundMatches) = 2
    /\ ScoreGreater(FoundMatches[1].score, FoundMatches[2].score)

----------------------------------------------------------------------------
(* Properties of performSearch over a corpus, checked under SpecSearch *)

\* The place of the document with this id in the documents searched
PositionOf(id) == CHOOSE i \in 1..Len(searched.docs) : searched.docs[i].id = id

\* The document has a hit line for the searched query on a side in scope
MatchesInScope(doc) ==
    \/ /\ searched.scope \in {"all", "original"}
       /\ HitLines(doc.originalText, searched.query) # {}
    \/ /\ searched.scope \in {"all", "translated"}
       /\ HitLines(doc.translatedText, searched.query) # {}

\* C7: the results are in descending order of total match count, and
\* documents of equal total keep the order of the documents list.
C7_ResultsRankedByTotal ==
    searched.done =>
        \A k, l \in 1..Len(results) :
            k < l =>
               /\ Total(results[k]) >= Total(results[l])
               /\ Total(results[k]) = Total(results[l])
                     => PositionOf(results[k].documentId)
                          < PositionOf(results[l].documentId)

\* Three results: the second document ranked first, the first and the third
\* tied behind it in their input order
C7_Witness ==
    /\ searched.done
    /\ Len(results) = 3
    /\ results[1].documentId = 2
    /\ results[2].documentId = 1
    /\ results[3].documentId = 3
    /\ Total(results[1]) > Total(results[2])
    /\ Total(results[2]) = Total(results[3])

\* C8: a document is in the results if and only if one of its sides in scope
\* has a match; no result has both match sequences empty.
C8_ResultIffMatch ==
    searched.done =>
        /\ \A i \in 1..Len(searched.docs) :
              (\E k \in 1..Len(results) :
                  results[k].documentId = searched.docs[i].id)
              <=> MatchesInScope(searched.docs[i])
        /\ \A k \in 1..Len(results) :
              /\ results[k].originalMatches # <<>>
                    \/ results[k].translatedMatches # <<>>
              /\ \A l \in 1..Len(results) :
                    results[k].documentId = results[l].documentId => k = l

\* A search of the translated side that keeps one document and leaves out
\* another whose original side alone contains the query
C8_Witness ==
    /\ searched.done
    /\ searched.scope = "translated"
    /\ results # <<>>
    /\ \E i \in 1..Len(searched.docs) :
          /\ HitLines(searched.docs[i].originalText, searched.query) # {}
          /\ \A k \in 1..Len(results) :
                results[k].documentId # searched.docs[i].id

\* C9: with scope 'original' no result has translated matches, and with
\* scope 'translated' no result has original matches.
C9_ScopeFiltersSides ==
    searched.done =>
        /\ searched.scope = "original"
              => \A k \in 1..Len(results) : results[k].translatedMatches = <<>>
        /\ searched.scope = "translated"
              => \A k \in 1..Len(results) : results[k].originalMatches = <<>>

\* An original-only search returning a document whose translated side
\* contains the query too
C9_Witness ==
    /\ searched.done
    /\ searched.scope = "original"
    /\ \E k \in 1..Len(results) :
          /\ results[k].originalMatches # <<>>
          /\ HitLines(searched.docs[PositionOf(results[k].documentId)].translatedText,
                      searched.query) # {}

----------------------------------------------------------------------------
(* highlightText as a function, checked under SpecHighlight *)

MaxHText == 3        \* longest text highlighted
MaxHQuery == 2       \* longest live query

HAlphabet == {"a", "A", NL}

\* The pinned chunks are match windows: not empty, and no two the same
\* (findMatchingChunks deduplicates them).  A chunk either occurs in the
\* text, and then is one of its slices, or does not occur in it; one chunk
\* outside the alphabet stands for those.
Substrings(text) ==
    {SubSeq(text, i, j) : i \in 1..Len(text), j \in 1..Len(text)} \ {<<>>}
StaleChunk == <<"z">>
ChunkCounts == 0..2
ChunkLists(text) ==
    UNION {{c \in [1..n -> Substrings(text) \cup {StaleChunk}] :
               \A i, j \in 1..n : c[i] = c[j] => i = j} : n \in ChunkCounts}

InitHighlight ==
    /\ ExtraIdle
    /\ hText \in Strs(HAlphabet, MaxHText)
    /\ hQuery \in Strs(HAlphabet, MaxHQuery)
    /\ hChunks \in ChunkLists(hText)
    /\ hHighlights = <<>>
    /\ hParts = <<>>
    /\ hRendered = FALSE
    /\ SearchIdle
    /\ ScrollIdle
    /\ PageAt("viewer", [id |-> 1, originalText |-> hText,
                         translatedText |-> <<>>])

NextHighlight ==
    \/ CallHighlightText /\ UNCHANGED <<searchVars, scrollVars, pageVars, extraVars>>

SpecHighlight == InitHighlight /\ [][NextHighlight]_vars

\* C1: the nodes highlightText returns - marks and the plain runs between
\* them, in order - show exactly the input text: no character is dropped
\* and none is shown twice.
C1_SegmentsReconstructText ==
    hRendered => RenderedText(hParts) = hText

----------------------------------------------------------------------------
(* The synchronized scroll of one open viewer, checked under SpecScroll *)

\* <<scrollHeight, clientHeight>> of a pane: the two panes of spec.md's
\* mirroring example, a short pane, and a pane without overflow
Geometries == {<<1000, 200>>, <<500, 100>>, <<5, 2>>, <<100, 100>>}

\* The offsets the user scrolls to: the top, the middle and the bottom
UserOffsets(el) == {0, MaxScroll(el) \div 2, MaxScroll(el)}

InitScroll ==
    /\ ExtraIdle
    /\ syncScroll = TRUE
    /\ \E g \in Geometries \X Geometries :
          pane = [p \in Panes |-> Element(IF p = "original" THEN g[1] ELSE g[2])]
    /\ scrollingPane = "null"
    /\ timerPending = FALSE
    /\ pendingScroll = [p \in Panes |-> "none"]
    /\ lastEvent = NoEvent
    /\ relayouts = 0
    /\ ClockIdle
    /\ SearchIdle
    /\ HighlightIdle
    /\ PageAt("viewer", OpenDocument)

NextScroll ==
    \/ \E p \in Panes : \E x \in UserOffsets(pane[p]) :
          UserScroll(p, x) /\ UNCHANGED <<searchVars, highlightVars, pageVars, extraVars>>
    \/ \E p \in Panes : HandleScroll(p) /\ UNCHANGED <<searchVars, highlightVars, pageVars, extraVars>>
    \/ TimerFire /\ UNCHANGED <<searchVars, highlightVars, pageVars, extraVars>>
    \/ ToggleSync /\ UNCHANGED <<searchVars, highlightVars, pageVars, extraVars>>
    \/ \E p \in Panes : \E g \in Geometries :
          Relayout(p, g) /\ UNCHANGED <<searchVars, highlightVars, pageVars, extraVars>>

SpecScroll == InitScroll /\ [][NextScroll]_vars

\* The scrollable range of a pane
ScrollRange(p) == pane[p].scrollHeight - pane[p].clientHeight

\* The step taken last was a scroll handler run by an attached listener
HandlerRan == lastEvent.kind = "scroll" /\ lastEvent.listening

\* C2: with sync enabled, the scroll event raised by a mirrored write is
\* ignored by the handler of the pane written to: that handler never writes
\* back to the pane the user scrolled, in whatever order the event and the
\* expiry of the suppression timer arrive.
C2_MirroredEventIgnored ==
    (HandlerRan /\ lastEvent.origin = "mirror") => ~lastEvent.wrote

\* C10: with sync enabled, no suppression by the other pane and overflow in
\* both panes, the handler of the scrolled pane leaves the other pane at
\* offset * otherRange / sourceRange; 400 of 800 gives exactly 200 of 400,
\* and the top and the bottom map to the top and the bottom.
C10_MirrorsProportionally ==
    (/\ HandlerRan
     /\ lastEvent.before # Other(lastEvent.pane)
     /\ ScrollRange(lastEvent.pane) > 0
     /\ ScrollRange(Other(lastEvent.pane)) > 0)
    => LET src == lastEvent.pane
           dst == Other(lastEvent.pane)
           x == lastEvent.offset
           t == pane[dst].scrollTop
       IN /\ lastEvent.wrote
          /\ t.num * x.den * ScrollRange(src) = x.num * ScrollRange(dst) * t.den
          /\ x = Rat(0, 1) => t = Rat(0, 1)
          /\ x = Rat(ScrollRange(src), 1) => t = Rat(ScrollRange(dst), 1)
          /\ (/\ x = Rat(400, 1)
              /\ ScrollRange(src) = 800
              /\ ScrollRange(dst) = 400) => t = Rat(200, 1)

\* The mirroring example: the original pane, 1000 high in a viewport of 200,
\* handled at offset 400, has put the translated pane (500 in 100) at 200
C10_Witness ==
    /\ HandlerRan
    /\ lastEvent.pane = "original"
    /\ lastEvent.before = "null"
    /\ lastEvent.offset = Rat(400, 1)
    /\ pane["original"].scrollHeight = 1000
    /\ pane["original"].clientHeight = 200
    /\ pane["translated"].scrollHeight = 500
    /\ pane["translated"].clientHeight = 100
    /\ pane["translated"].scrollTop = Rat(200, 1)

C12_NoMirroringWhileOff ==
    /\ (lastEvent.kind = "scroll" /\ ~syncScroll)
       => /\ ~lastEvent.wrote
          /\ pane[Other(lastEvent.pane)].scrollTop = lastEvent.otherOffset
          /\ scrollingPane = lastEvent.before
          /\ ~timerPending
    /\ (lastEvent.kind = "scroll" /\ lastEvent.wrote) => syncScroll

\* With sync switched off the user has scrolled one pane away from the top
\* and its scroll event has been delivered: the other pane, which has
\* overflow too, is still at the top
C12_Witness ==
    /\ lastEvent.kind = "scroll"
    /\ ~syncScroll
    /\ lastEvent.origin = "user"
    /\ lastEvent.offset # Rat(0, 1)
    /\ ScrollRange(Other(lastEvent.pane)) > 0
    /\ pane[Other(lastEvent.pane)].scrollTop = Rat(0, 1)

----------------------------------------------------------------------------
(* The spans of highlightText, checked under SpecHighlight *)

\* The spans of the query (isChunk false) and of the pinned chunks (isChunk
\* true) among the highlights, in the order of the sorted list
LiveSpans == SelectSeq(hHighlights, LAMBDA h : ~h.isChunk)
PinnedSpans == SelectSeq(hHighlights, LAMBDA h : h.isChunk)

\* q occurs in t at 0-based offset i, compared without regard to case
OccursAt(t, q, i) ==
    /\ i + Len(q) <= Len(t)
    /\ \A k \in 1..Len(q) : LowerChar(t[i + k]) = LowerChar(q[k])

\* The offsets of all occurrences of q in t, overlapping ones included
AllOccurrences(t, q) == {i \in 0..Len(t) : OccursAt(t, q, i)}

\* The offsets of the occurrences met by a scan from left to right that
\* resumes behind each occurrence it takes: an occurrence is taken exactly
\* when no occurrence taken before it reaches into it.
ScannedOccurrences(t, q) ==
    CHOOSE S \in SUBSET AllOccurrences(t, q) :
        \A i \in AllOccurrences(t, q) :
            i \in S <=> \A j \in S : j < i => j + Len(q) <= i

\* C13 as claimed: for a non-empty query there is exactly one live span for
\* every case-insensitive occurrence of the query in the text, at the
\* occurrence's offset and of the query's length; for an empty query there
\* is no live span.
C13_SpanPerOccurrence ==
    hRendered =>
       IF hQuery = <<>> THEN LiveSpans = <<>>
       ELSE /\ \A i \in AllOccurrences(hText, hQuery) :
                  Cardinality({k \in 1..Len(LiveSpans) : LiveSpans[k].start = i}) = 1
            /\ \A k \in 1..Len(LiveSpans) :
                  /\ LiveSpans[k].start \in AllOccurrences(hText, hQuery)
                  /\ LiveSpans[k].end = LiveSpans[k].start + Len(hQuery)

\* C13 amended: for a non-empty query there is exactly one live span for
\* every occurrence met by a left-to-right scan that resumes behind each
\* occurrence found (occurrences overlapping an earlier one get no span), at
\* the occurrence's offset and of the query's length; for an empty query
\* there is no live span.
C13_SpanPerScannedOccurrence ==
    hRendered =>
       IF hQuery = <<>> THEN LiveSpans = <<>>
       ELSE /\ \A i \in ScannedOccurrences(hText, hQuery) :
                  Cardinality({k \in 1..Len(LiveSpans) : LiveSpans[k].start = i}) = 1
            /\ \A k \in 1..Len(LiveSpans) :
                  /\ LiveSpans[k].start \in ScannedOccurrences(hText, hQuery)
                  /\ LiveSpans[k].end = LiveSpans[k].start + Len(hQuery)

\* A query of two characters highlighted in a text where it occurs three
\* characters long, in another case, overlapping itself
C13_Witness ==
    /\ hRendered
    /\ Len(hQuery) = 2
    /\ ~Includes(hText, hQuery)
    /\ Cardinality(AllOccurrences(hText, hQuery)) = 2
    /\ Len(LiveSpans) = 1

\* Chunk c stands in t at 0-based offset i, character for character
ExactAt(t, c, i) == i + Len(c) <= Len(t) /\ SubSeq(t, i + 1, i + Len(c)) = c

ExactOffsets(t, c) == {i \in 0..Len(t) : ExactAt(t, c, i)}

FirstExactOffset(t, c) ==
    CHOOSE i \in ExactOffsets(t, c) : \A j \in ExactOffsets(t, c) : i <= j

\* The pinned chunks that occur in the text, in their order
PresentChunks == SelectSeq(hChunks, LAMBDA c : ExactOffsets(hText, c) # {})

\* The nodes that show something: an empty string node renders nothing
Shown(nodes) == SelectSeq(nodes, LAMBDA n : ~(n.kind = "text" /\ n.s = <<>>))

\* C14: every pinned chunk that occurs in the text gets exactly one pinned
\* span, from the chunk's first exact occurrence over the chunk's length; a
\* chunk that does not occur gets none, and the highlights and the nodes
\* shown are those of the same call without the missing chunks.
C14_PinnedSpanPerPresentChunk ==
    hRendered =>
       /\ Len(PinnedSpans) = Len(PresentChunks)
       /\ \A n \in 1..Len(PresentChunks) :
             LET c == PresentChunks[n]
                 at == FirstExactOffset(hText, c)
             IN Cardinality({k \in 1..Len(PinnedSpans) :
                                /\ PinnedSpans[k].start = at
                                /\ PinnedSpans[k].end = at + Len(c)}) = 1
       /\ \A k \in 1..Len(PinnedSpans) :
             \E n \in 1..Len(PresentChunks) :
                /\ PinnedSpans[k].start = FirstExactOffset(hText, PresentChunks[n])
                /\ PinnedSpans[k].end = PinnedSpans[k].start + Len(PresentChunks[n])
       /\ hHighlights = (IF hQuery = <<>> /\ PresentChunks = <<>> THEN <<>>
                         ELSE Highlights(hText, hQuery, PresentChunks))
       /\ Shown(hParts) = Shown(highlightText(hText, hQuery, PresentChunks))

\* A call with a live query, a chunk that is missing from the text and a
\* chunk that occurs in it twice
C14_Witness ==
    /\ hRendered
    /\ Len(LiveSpans) >= 1
    /\ \E n \in 1..Len(hChunks) : ExactOffsets(hText, hChunks[n]) = {}
    /\ \E n \in 1..Len(hChunks) : Cardinality(ExactOffsets(hText, hChunks[n])) = 2
    /\ Len(PinnedSpans) = 1

----------------------------------------------------------------------------
(* Scores and windows of the candidates, checked under SpecMatch *)

\* The hit line of the k-th candidate returned: the lowest hit line with the
\* candidate's window
HitLineOf(k) ==
    Split(SearchedText)[FirstHitLine(SearchedText, SearchedQuery,
                                     FoundMatches[k].text) + 1]

\* C19: the score of a candidate is the number of occurrences of the query
\* in its hit line, compared without regard to case and counted by a scan
\* from left to right that resumes behind each occurrence, over the length
\* of the hit line, which is not zero; the context lines add nothing to the
\* count, and "aa" counts once in "aaa".
C19_ScoreIsScannedCountOverLength ==
    searched.done =>
        \A k \in 1..Len(FoundMatches) :
            LET line == HitLineOf(k)
                score == FoundMatches[k].score
            IN /\ score.num = Cardinality(ScannedOccurrences(line, SearchedQuery))
               /\ score.den = Len(line)
               /\ score.den > 0
               /\ (Len(SearchedQuery) = 2 /\ Len(line) = 3
                     /\ Cardinality(AllOccurrences(line, SearchedQuery)) = 2)
                  => score.num = 1

\* A candidate whose hit line holds the query twice, overlapping, in a
\* window of two lines
C19_Witness ==
    /\ searched.done
    /\ \E k \in 1..Len(FoundMatches) :
          /\ Len(SearchedQuery) = 2
          /\ Len(HitLineOf(k)) = 3
          /\ Cardinality(AllOccurrences(HitLineOf(k), SearchedQuery)) = 2
          /\ Len(Split(FoundMatches[k].text)) = 2
          /\ FoundMatches[k].score = Score(1, 3)

\* The bounds of the window of hit line i in a text of n lines (0-based,
\* both inclusive)
WindowFirst(i) == IF i - 1 < 0 THEN 0 ELSE i - 1
WindowLast(n, i) == (IF i + 2 > n THEN n ELSE i + 2) - 1

\* w is lines WindowFirst(i) to WindowLast(n, i) of the text, joined by
\* newlines: split at the newlines it gives those lines back
IsWindowOf(w, lines, i) ==
    LET lo == WindowFirst(i)
        hi == WindowLast(Len(lines), i)
    IN /\ Len(Split(w)) = hi - lo + 1
       /\ \A j \in 1..(hi - lo + 1) : Split(w)[j] = lines[lo + j]

\* C20: every candidate's text is the window of a hit line i - lines
\* max(0, i-1) to min(n, i+2)-1 joined by newlines - and every hit line's
\* window is returned; the window holds the hit line, has at most 3 lines,
\* and has 2 lines or 1 line at the first and the last line of the text.
C20_WindowAroundHitLine ==
    (searched.done /\ ~WhitespaceOnly(SearchedQuery)) =>
        LET lines == Split(SearchedText)
            n == Len(lines)
            hits == HitLines(SearchedText, SearchedQuery)
        IN /\ \A k \in 1..Len(FoundMatches) :
                 \E i \in hits : IsWindowOf(FoundMatches[k].text, lines, i)
           /\ \A i \in hits :
                 \E k \in 1..Len(FoundMatches) :
                    LET w == Split(FoundMatches[k].text)
                    IN /\ IsWindowOf(FoundMatches[k].text, lines, i)
                       /\ w[i - WindowFirst(i) + 1] = lines[i + 1]
                       /\ Len(w) \in 1..3
                       /\ (i = 0 \/ i = n - 1) => Len(w) \in 1..2
                       /\ n = 1 => Len(w) = 1
                       /\ (0 < i /\ i < n - 1) => Len(w) = 3

\* A text of three lines or more with hits on its first, a middle and its
\* last line: windows of two and of three lines are returned
C20_Witness ==
    /\ searched.done
    /\ {0, 1, Len(Split(SearchedText)) - 1} \subseteq HitLines(SearchedText, SearchedQuery)
    /\ Len(Split(SearchedText)) >= 3
    /\ \E k \in 1..Len(FoundMatches) : Len(Split(FoundMatches[k].text)) = 3
    /\ \E k \in 1..Len(FoundMatches) : Len(Split(FoundMatches[k].text)) = 2

----------------------------------------------------------------------------
(* Searches in flight and the user's later actions, checked under SpecSearch *)

\* C16: once no search is in flight, the results shown and the query reported
\* to the page are those of the user's last action on the form: the results
\* and the query of the last submission, or no results and the empty query
\* when clearSearch came last.
C16_LatestActionWins ==
    (inflight = <<>> /\ userAction.kind # "none")
    => IF userAction.kind = "clear"
       THEN results = <<>> /\ pageSearchQuery = <<>>
       ELSE /\ results = SearchResults(userAction.docs, userAction.scope,
                                       userAction.query)
            /\ pageSearchQuery = userAction.query

----------------------------------------------------------------------------
(* The search component on a page whose documents change: SpecCorpus *)

CorpusIds == {1, 2}  \* the ids of the documents uploaded
MaxInflight == 1     \* performSearch calls suspended at the same time

\* Two versions of a document: "a" is on the original side of the first and
\* on the translated side of the second
Versions == {<<TextA, TextB>>, <<TextB, TextA>>}

\* The documents uploaded: document 1 in either version, the others in the
\* first
CorpusDocs ==
    {[id |-> i, originalText |-> v[1], translatedText |-> v[2]] :
        i \in CorpusIds, v \in Versions}
    \ {[id |-> i, originalText |-> TextB, translatedText |-> TextA] :
          i \in CorpusIds \ {1}}

CorpusQueries == {<<"a">>}

\* The panes of the viewer are not scrolled under this specification: every
\* document takes the same room
CorpusLayout == <<<<100, 100>>, <<100, 100>>>>

\* The page as Home first renders it
InitCorpus ==
    /\ ExtraIdle
    /\ SearchIdle
    /\ HighlightIdle
    /\ ScrollIdle
    /\ PageAt("upload", NoDocument)

NextCorpus ==
    \/ \E d \in CorpusDocs :
          HandleDocumentProcessed(d, CorpusLayout) /\ UNCHANGED <<highlightVars, extraVars>>
    \/ \E id \in CorpusIds :
          HandleDeleteDocument(id, CorpusLayout) /\ UNCHANGED <<highlightVars, extraVars>>
    \/ \E id \in CorpusIds :
          HandleSelectDocument(id, CorpusLayout) /\ UNCHANGED <<highlightVars, extraVars>>
    \/ \E mode \in ViewModes :
          SetViewMode(mode, CorpusLayout) /\ UNCHANGED <<highlightVars, extraVars>>
    \/ \E q \in CorpusQueries :
          /\ SearchMounted(viewMode)
          /\ SetQuery(q)
          /\ UNCHANGED <<highlightVars, scrollVars, pageVars, extraVars>>
    \/ \E scope \in Scopes :
          /\ SearchMounted(viewMode)
          /\ SetSearchLanguage(scope)
          /\ UNCHANGED <<highlightVars, scrollVars, pageVars, extraVars>>
    \/ /\ SearchMounted(viewMode)
       /\ Len(inflight) < MaxInflight
       /\ HandleSearch
       /\ UNCHANGED <<highlightVars, scrollVars, pageVars, extraVars>>
    \/ /\ SearchMounted(viewMode)
       /\ ClearSearch
       /\ UNCHANGED <<highlightVars, scrollVars, pageVars, extraVars>>
    \/ PerformSearchResume /\ UNCHANGED <<highlightVars, scrollVars, pageVars, extraVars>>

SpecCorpus == InitCorpus /\ [][NextCorpus]_vars

\* C15: the results of a completed search are those of the documents and
\* the scope of the page at the moment of its submission, whatever was
\* uploaded, replaced or deleted and whatever scope was chosen during its
\* delay; every result is computed from one document of that moment, both
\* sides from the same version.
C15_ResultsFromSnapshot ==
    (searched.done /\ ~isSearching)
    => /\ results = SearchResults(userAction.docs, userAction.scope,
                                  userAction.query)
       /\ \A k \in 1..Len(results) :
             \E i \in 1..Len(userAction.docs) :
                /\ userAction.docs[i].id = results[k].documentId
                /\ results[k] = SearchDocument(userAction.docs[i],
                                               userAction.scope,
                                               ToLower(userAction.query))

\* A search has completed after the documents and the scope changed during
\* its delay: a search of the page as it is now would give other results
C15_Witness ==
    /\ searched.done
    /\ ~isSearching
    /\ results # <<>>
    /\ documents # userAction.docs
    /\ searchLanguage # userAction.scope
    /\ results # SearchResults(documents, userAction.scope, userAction.query)
    /\ results # SearchResults(userAction.docs, searchLanguage, userAction.query)

----------------------------------------------------------------------------
(* The viewer on a page whose selected document changes: SpecViewer *)

ViewerDocs == {d \in CorpusDocs : d.originalText = TextA}

\* The room the two texts of a document take in the panes: the panes of the
\* mirroring example, two short panes, and a document whose original text
\* fits its pane
ViewerLayouts ==
    {<<<<1000, 200>>, <<500, 100>>>>,
     <<<<5, 2>>, <<5, 2>>>>,
     <<<<100, 100>>, <<5, 2>>>>}

InitViewer ==
    /\ ExtraIdle
    /\ SearchIdle
    /\ HighlightIdle
    /\ ScrollIdle
    /\ PageAt("upload", NoDocument)

NextViewer ==
    \/ \E d \in ViewerDocs : \E g \in ViewerLayouts :
          HandleDocumentProcessed(d, g) /\ UNCHANGED <<highlightVars, extraVars>>
    \/ \E id \in CorpusIds : \E g \in ViewerLayouts :
          HandleDeleteDocument(id, g) /\ UNCHANGED <<highlightVars, extraVars>>
    \/ \E id \in CorpusIds : \E g \in ViewerLayouts :
          HandleSelectDocument(id, g) /\ UNCHANGED <<highlightVars, extraVars>>
    \/ \E mode \in ViewModes : \E g \in ViewerLayouts :
          SetViewMode(mode, g) /\ UNCHANGED <<highlightVars, extraVars>>
    \/ \E p \in Panes : \E x \in UserOffsets(pane[p]) :
          /\ ViewerMounted(viewMode, selectedDocument)
          /\ UserScroll(p, x)
          /\ UNCHANGED <<searchVars, highlightVars, pageVars, extraVars>>
    \/ \E p \in Panes :
          /\ ViewerMounted(viewMode, selectedDocument)
          /\ HandleScroll(p)
          /\ UNCHANGED <<searchVars, highlightVars, pageVars, extraVars>>
    \/ /\ ViewerMounted(viewMode, selectedDocument)
       /\ TimerFire
       /\ UNCHANGED <<searchVars, highlightVars, pageVars, extraVars>>
    \/ /\ ViewerMounted(viewMode, selectedDocument)
       /\ ToggleSync
       /\ UNCHANGED <<searchVars, highlightVars, pageVars, extraVars>>

SpecViewer == InitViewer /\ [][NextViewer]_vars

\* C17: the view of a newly selected document starts from a fresh scroll
\* state - both panes at the top, no pane marked as scrolling, no timer and
\* no scroll event pending - whether the viewer was opened for it or was
\* already showing another document.
C17_FreshScrollStatePerDocument ==
    lastEvent.kind \in {"mount", "document"}
    => /\ \A p \in Panes : pane[p].scrollTop = Rat(0, 1)
       /\ scrollingPane = "null"
       /\ ~timerPending
       /\ \A p \in Panes : pendingScroll[p] = "none"

----------------------------------------------------------------------------
(* The suppression flag in time: SpecScrollFair *)

\* The timeout of 50 ms expires
TimerStep == TimerFire /\ UNCHANGED <<searchVars, highlightVars, pageVars, extraVars>>

\* A queued scroll event is delivered
DeliveryStep ==
    \E p \in Panes : HandleScroll(p) /\ UNCHANGED <<searchVars, highlightVars, pageVars, extraVars>>

\* A timeout that is pending expires, and a scroll event that is queued is
\* delivered
SpecScrollFair ==
    InitScroll /\ [][NextScroll]_vars /\ WF_vars(TimerStep) /\ WF_vars(DeliveryStep)

----------------------------------------------------------------------------
(* The effect with the time of its timeouts: SpecScrollTimed *)

NextScrollTimed ==
    \/ \E p \in Panes : \E x \in UserOffsets(pane[p]) :
          /\ UserScroll(p, x)
          /\ UNCHANGED <<unclockedVars, clockVars>>
    \/ \E p \in Panes :
          HandleScrollTimed(p) /\ UNCHANGED unclockedVars
    \/ TimerFireTimed /\ UNCHANGED unclockedVars
    \/ ToggleSyncTimed /\ UNCHANGED unclockedVars
    \/ \E p \in Panes, g \in Geometries :
          /\ Relayout(p, g)
          /\ UNCHANGED <<unclockedVars, clockVars>>
    \/ Tick /\ UNCHANGED unclockedVars

SpecScrollTimed == InitScroll /\ [][NextScrollTimed]_vars

----------------------------------------------------------------------------
(* A window of a search result as the chunk of a render: SpecRoundTrip *)

\* The viewer's render of the original pane for one window of the result
\* clicked: highlightText(originalText, '', [window]).  handleResultClick
\* passes the windows' texts on as the pinned chunks.
RenderWindow(k) ==
    /\ searched.done
    /\ ~hRendered
    /\ k \in 1..Len(FoundMatches)
    /\ hText' = SearchedText
    /\ hQuery' = <<>>
    /\ hChunks' = <<FoundMatches[k].text>>
    /\ hHighlights' = Highlights(hText', hQuery', hChunks')
    /\ hParts' = highlightText(hText', hQuery', hChunks')
    /\ hRendered' = TRUE

MaxWindows == 3

NextRoundTrip ==
    \/ CallPerformSearch /\ UNCHANGED <<highlightVars, scrollVars, pageVars, extraVars>>
    \/ PerformSearchResume /\ UNCHANGED <<highlightVars, scrollVars, pageVars, extraVars>>
    \/ \E k \in 1..MaxWindows :
          RenderWindow(k) /\ UNCHANGED <<searchVars, scrollVars, pageVars, extraVars>>

SpecRoundTrip == InitMatch /\ [][NextRoundTrip]_vars

----------------------------------------------------------------------------
(* Home with uploads, a vault, the search view and the viewer: SpecPage *)

\* The documents that uploads (and the vault browser) hand to the page
PageDocs == {d \in CorpusDocs : d.originalText = TextA}

PageIds == {1, 2, 3}

NextPage ==
    \/ \E d \in PageDocs :
          HandleDocumentProcessed(d, CorpusLayout) /\ UNCHANGED <<highlightVars, extraVars>>
    \/ \E id \in PageIds :
          /\ PageClickable
          /\ HandleDeleteDocument(id, CorpusLayout)
          /\ UNCHANGED <<highlightVars, extraVars>>
    \/ \E id \in PageIds :
          SidebarSelect(id, CorpusLayout) /\ UNCHANGED unvaultedVars
    \/ \E k \in 1..MaxDocs :
          HandleResultClick(k, CorpusLayout) /\ UNCHANGED unvaultedVars
    \/ \E mode \in ViewModes :
          /\ PageClickable
          /\ SetViewMode(mode, CorpusLayout)
          /\ UNCHANGED <<highlightVars, extraVars>>
    \/ \E q \in CorpusQueries :
          /\ PageClickable
          /\ SearchMounted(viewMode)
          /\ SetQuery(q)
          /\ UNCHANGED <<highlightVars, scrollVars, pageVars, extraVars>>
    \/ /\ PageClickable
       /\ SearchMounted(viewMode)
       /\ Len(inflight) < MaxInflight
       /\ HandleSearch
       /\ UNCHANGED <<highlightVars, scrollVars, pageVars, extraVars>>
    \/ PerformSearchResume /\ UNCHANGED <<highlightVars, scrollVars, pageVars, extraVars>>
    \/ \E vaultId \in VaultIds \cup {"null"} :
          HandleVaultSelect(vaultId) /\ UNCHANGED unvaultedVars
    \/ \E ok \in BOOLEAN :
          VaultListResume(ok) /\ UNCHANGED unvaultedVars
    \/ \E ok \in BOOLEAN :
          VaultFirstResume(ok, CorpusLayout) /\ UNCHANGED unvaultedVars
    \/ \E ok \in BOOLEAN :
          SelectLoadResume(ok, CorpusLayout) /\ UNCHANGED unvaultedVars

SpecPage == InitCorpus /\ [][NextPage]_vars

\* The viewer is on the page and is handed chunks that are not empty
PinnedChunksShown ==
    /\ ViewerMounted(viewMode, selectedDocument)
    /\ highlightedChunks # Undefined
    /\ highlightedChunks.original # <<>> \/ highlightedChunks.translated # <<>>

\* C24: the chunks the viewer is handed with a document were taken from a
\* search result of that document.
C24_ChunksOfShownDocument ==
    PinnedChunksShown => chunksFrom = selectedDocument.id

----------------------------------------------------------------------------
(* The upload component: SpecUpload *)

notUploadVars == <<searchVars, highlightVars, scrollVars, pageVars, clockVars,
                   vaultVars, pollVars, cacheVars, nameVars>>

InitUpload ==
    /\ ExtraIdle
    /\ SearchIdle
    /\ HighlightIdle
    /\ ScrollIdle
    /\ PageAt("upload", NoDocument)

NextUpload ==
    \/ \E type \in FileTypes : ProcessFile(type) /\ UNCHANGED notUploadVars
    \/ \E outcome \in Outcomes :
          DetectLanguageResume(outcome) /\ UNCHANGED notUploadVars
    \/ \E i \in 1..MaxRuns : IntervalTick(i) /\ UNCHANGED notUploadVars
    \/ \E outcome \in Outcomes : ProcessResume(outcome) /\ UNCHANGED notUploadVars
    \/ IndexingResume /\ UNCHANGED notUploadVars
    \/ ResetTimeout /\ UNCHANGED notUploadVars

SpecUpload == InitUpload /\ [][NextUpload]_vars

\* C25: once the call has failed, status is 'error', isProcessing is false,
\* and status and progress stay as the failure left them until the next call.
C25_FailureIsFinal ==
    run.pc = "failed" =>
        /\ status = "error"
        /\ ~isProcessing
        /\ progress = run.progress

\* C26: onDocumentProcessed is called at most once per call of processFile,
\* by the step that sets status to 'completed' behind an ok answer of
\* /api/process, for a file of a supported type; a refused file changes the
\* error message only; a failed call has delivered nothing.
C26_DeliveredOnceOnSuccess ==
    /\ delivered <= 1
    /\ delivered = 1 =>
          /\ run.pc = "done"
          /\ run.type \in {"application/pdf", "image/jpeg", "image/png",
                            "image/tiff", "text/plain"}
    /\ upEvent.kind = "delivered" => upEvent.status = "completed" /\ delivered = 1
    /\ run.pc \in {"failed", "refused", "detect", "process", "indexing"}
          => delivered = 0
    /\ (upEvent.kind = "file" /\ run.pc = "refused") =>
          /\ status = upEvent.status
          /\ progress = upEvent.progress
          /\ isProcessing = upEvent.isProcessing
          /\ error # "null"

\* A second call has delivered its document while the interval of a first,
\* failed call is still running
C26_Witness ==
    /\ runs = 2
    /\ delivered = 1
    /\ run.pc = "done"
    /\ status = "completed"
    /\ intervals # <<>>

----------------------------------------------------------------------------
(* The polling loops, with requests that are answered: SpecPollFair *)

notPollVars == <<searchVars, highlightVars, scrollVars, pageVars, clockVars,
                 vaultVars, uploadVars, cacheVars, nameVars>>

InitPoll ==
    /\ VaultIdle
    /\ UploadIdle
    /\ CacheIdle
    /\ NamesIdle
    /\ pollFn \in PollFns
    /\ attempts = 0
    /\ pollState = "polling"
    /\ polls = 0
    /\ lastPoll = "none"
    /\ SearchIdle
    /\ HighlightIdle
    /\ ScrollIdle
    /\ PageAt("upload", NoDocument)

PollStep == \E answer \in PollAnswers : Poll(answer) /\ UNCHANGED notPollVars
TextStep == \E ok \in BOOLEAN : TextResume(ok) /\ UNCHANGED notPollVars
TimeoutStep == PollTimeout /\ UNCHANGED notPollVars

NextPoll ==
    \/ \E answer \in PollAnswers : Poll(answer) /\ UNCHANGED notPollVars
    \/ \E ok \in BOOLEAN : TextResume(ok) /\ UNCHANGED notPollVars
    \/ PollTimeout /\ UNCHANGED notPollVars

\* Every request is answered and every sleep ends
SpecPollFair ==
    InitPoll /\ [][NextPoll]_vars
    /\ WF_vars(PollStep) /\ WF_vars(TextStep) /\ WF_vars(TimeoutStep)

PollEnded == pollState \in {"returned", "thrown"}

C28_Outcome ==
    /\ polls <= MaxAttempts(pollFn)
    /\ polls <= (IF pollFn = "extractTextFromImage" THEN 90 ELSE 60)
    /\ pollState = "polling" => polls = attempts
    /\ pollState = "text" => lastPoll = "completed" /\ pollFn # "waitForCompletion"
    /\ pollState = "returned" => lastPoll = "completed"
    /\ pollState = "thrown" =>
          \/ lastPoll \in {"failed", "not ok"}
          \/ lastPoll = "text not ok" /\ pollFn # "waitForCompletion"
          \/ /\ lastPoll = "timed out"
             /\ polls = MaxAttempts(pollFn)
             /\ attempts = polls
    /\ lastPoll \in {"failed", "not ok"} => pollState = "thrown"
    /\ (lastPoll = "completed" /\ pollFn = "waitForCompletion") => pollState = "returned"

----------------------------------------------------------------------------
(* A PDF processed and then fetched: SpecCache *)

notCacheVars == <<searchVars, highlightVars, scrollVars, pageVars, clockVars,
                  vaultVars, uploadVars, pollVars, nameVars>>

NextCache ==
    \/ \E text \in ExtractedTexts, language \in Languages, extracted \in BOOLEAN,
          cleanLlm \in LlmOutcomes, translateLlm \in LlmOutcomes, saveOk \in BOOLEAN :
          /\ PostProcessPdf(text, language, extracted, cleanLlm, translateLlm, saveOk)
          /\ UNCHANGED notCacheVars
    \/ \E textOk \in BOOLEAN, detected \in Languages, cleanLlm \in LlmOutcomes,
          translateLlm \in LlmOutcomes, saveOk \in BOOLEAN :
          /\ GetDocument(textOk, detected, cleanLlm, translateLlm, saveOk)
          /\ UNCHANGED notCacheVars

SpecCache == InitCorpus /\ [][NextCache]_vars

\* C29: the GET of a PDF whose processing was saved answers from the cache -
\* cached, the texts and the language of the POST, and no call behind the
\* metadata request - whatever the extracted text was.
C29_CacheRoundTrip ==
    (getResponse # NoResponse /\ postResponse.saved) =>
        /\ getResponse.status = 200
        /\ getResponse.cached
        /\ getResponse.originalText = postResponse.originalText
        /\ getResponse.translatedText = postResponse.translatedText
        /\ getResponse.detectedLanguage = postResponse.detectedLanguage
        /\ getCalls = {}

----------------------------------------------------------------------------
(* Vaults created for uploads and listed: SpecVaults *)

notNameVars == <<searchVars, highlightVars, scrollVars, pageVars, clockVars,
                 vaultVars, uploadVars, pollVars, cacheVars>>

\* The names of the files uploaded
Filenames == {<<"a", ".", "p", "d", "f">>, <<".", "p", "d", "f">>, <<"a">>,
              <<"a", ".", "b", ".", "c">>, <<>>}

\* Date.now()
Timestamps == {<<"1">>, <<"1", "7">>}

\* The vaults the account may hold before the first upload: named as the
\* app names them, named otherwise, and without a name
OtherVaults ==
    {<<TRUE, <<"M", "y", " ", "v", "a", "u", "l", "t">>>>,
     <<TRUE, <<"x", " ", "T", "r", "a", "n", "s", "l", "a", "t", "i", "o", "n">>>>,
     <<TRUE, <<"T", "r", "a", "n", "s", "l", "a", "t", "i", "o", "n">>>>,
     <<TRUE, <<"1", " ", "D", "o", "c", "u", "m", "e", "n", "t", "s", " ", "f", "o", "r", " ", "t", "r", "a", "n", "s", "l", "a", "t", "i", "o", "n">>>>,
     <<TRUE, <<"m", "u", "l", "t", "i", "-", "l", "a", "n", "g", "-", "p", "r", "o", "c", "e", "s", "s", "o", "r", "-", "1">>>>,
     <<TRUE, <<"a", " ", "t", "r", "a", "n", "s", "l", "a", "t", "i", "o", "n">>>>,
     <<FALSE, <<>>>>}

InitVaults ==
    /\ VaultIdle
    /\ UploadIdle
    /\ PollIdle
    /\ CacheIdle
    /\ \E a \in OtherVaults, b \in OtherVaults :
          vaults \in {<<>>, <<Vault(1, a[1], a[2])>>,
                      <<Vault(1, a[1], a[2]), Vault(2, b[1], b[2])>>}
    /\ envVaultId \in 0..Len(vaults)
    /\ usedVaults = {}
    /\ listed = [status |-> 0]
    /\ SearchIdle
    /\ HighlightIdle
    /\ ScrollIdle
    /\ PageAt("upload", NoDocument)

NextVaults ==
    \/ \E filename \in Filenames, legacy \in BOOLEAN, now \in Timestamps,
          created \in BOOLEAN :
          /\ GetOrCreateVault(filename, legacy, now, created)
          /\ UNCHANGED notNameVars
    \/ \E ok \in BOOLEAN : GetVaults(ok) /\ UNCHANGED notNameVars

SpecVaults == InitVaults /\ [][NextVaults]_vars

\* C30: every vault used for an upload is in the list of GET /api/vaults,
\* and every vault of the list has a name that ends with ' Translation' or
\* with 'Documents for translation' or starts with 'multi-lang-processor-'.
C30_UsedVaultsListed ==
    listed.status = 200 =>
        /\ \A id \in listed.used :
              \E k \in 1..Len(listed.vaults) : listed.vaults[k].id = id
        /\ \A k \in 1..Len(listed.vaults) :
              /\ listed.vaults[k].named
              /\ \/ EndsWith(listed.vaults[k].name, TranslationSuffix)
                 \/ EndsWith(listed.vaults[k].name, LegacySuffix)
                 \/ StartsWith(listed.vaults[k].name, LegacyPrefix)

\* C18: whenever a handler has marked a pane as the scrolling one, the mark
\* is cleared later on - also when the handler returned early for a pane
\* without overflow.
C18_FlagEventuallyCleared ==
    (scrollingPane # "null") ~> (scrollingPane = "null")

----------------------------------------------------------------------------
(* The order of the highlights, checked under SpecHighlight *)

\* The place in the chunk list of the chunk that pinned span h covers
ChunkPlace(h) ==
    CHOOSE n \in 1..Len(hChunks) : hChunks[n] = SubSeq(hText, h.start + 1, h.end)

C22_Rearmed ==
    \A p \in Panes :
       (/\ timers # <<>>
        /\ scrollingPane = p
        /\ lastEvent'.kind = "scroll"
        /\ lastEvent'.pane = p
        /\ lastEvent'.listening) => timers' = <<SuppressionDelay>>

C22_DebounceSemantics ==
    /\ [](Len(timers) <= 1)
    /\ [](lastEvent.kind = "timer" => idle >= SuppressionDelay)
    /\ [][C22_Rearmed]_vars

\* C23: a window returned by the search of a text, given back to
\* highlightText as the only chunk with an empty query on the same text, gets
\* exactly one span, a pinned one, and the text under the span is the window.
C23_WindowRoundTrip ==
    (hRendered /\ searched.done) =>
        /\ Len(hHighlights) = 1
        /\ hHighlights[1].isChunk
        /\ Slice(hText, hHighlights[1].start, hHighlights[1].end) = hChunks[1]
        /\ \E n \in 1..Len(hParts) :
              hParts[n] = MarkNode(hChunks[1], TRUE)

\* The window rendered has two lines and does not start the text
C23_Witness ==
    /\ hRendered
    /\ searched.done
    /\ hText = SearchedText
    /\ \E k \in 1..Len(FoundMatches) : hChunks = <<FoundMatches[k].text>>
    /\ Len(Split(hChunks[1])) = 2
    /\ Len(hHighlights) = 1
    /\ hHighlights[1].start > 0

====
